---- MODULE Spec2Model ----
(***************************************************************************)
(* Model of the InsightFlow data analysis agent: the web document          *)
(* synthesizer generateInsightsPDF and the request handlers                *)
(* (src/webServer.ts), the statistical profiler                            *)
(* TableProcessor.generateInsights (src/unnamed/part_003) and the command  *)
(* line loop with its document writer generatePDFFromText                  *)
(* (src/unnamed/part_002).                                                 *)
(*                                                                         *)
(* A JavaScript string is a sequence of UTF-16 code units.  An ASCII code  *)
(* unit is the one-character string itself; a code unit outside ASCII is   *)
(* written "U+hhhh".  String.length is Len; TextEncoder.encode writes one  *)
(* byte for an ASCII unit, two for U+0080..U+07FF and three for the other  *)
(* units of the basic plane.                                               *)
(***************************************************************************)
EXTENDS Integers, Sequences, FiniteSets, TLC

VARIABLES
    pdfPhase,     \* "input" | "ready" | "done" | "again": position of the PDF request
    insights,     \* generateInsightsPDF argument: the report text
    filename,     \* generateInsightsPDF argument: the file name
    timestamp,    \* new Date().toLocaleString() read by generateInsightsPDF
    pdfResult,    \* what generateInsightsPDF built and returned
    pdfAgain,     \* the clock reading and the document of a second call
    tablePhase,   \* "empty" | "stored" | "reported" | "repeated": position of the profiler
    tableData,    \* the TableData saved by process_table
    toolResult,   \* the result of extract_insights
    toolAgain,    \* the result of a second extract_insights on the same data
    sessions,     \* webServer.ts: the sessions Map
    lastProcessed,\* per session id, the last file /api/process processed with success
    response,     \* the response to the last web request
    pending,      \* the /api/process request that awaits its tool
    uploads,      \* the names in ./uploads
    latestTable,  \* the file whose table is the newest table_data file
    cli,          \* part_002: the application state and the position of main
    cliEvent,     \* what the last input line of the command line loop did
    ports,        \* the ports on which Deno.listen succeeds
    portResult,   \* what findAvailablePort returned or threw
    docPhase,     \* "input" | "ready" | "done": position of savePDFReport
    docInput,     \* generatePDFFromText arguments and its clock reading
    docResult     \* what generatePDFFromText built and returned

pdfVars == <<pdfPhase, insights, filename, timestamp, pdfResult, pdfAgain>>
tableVars == <<tablePhase, tableData, toolResult, toolAgain>>
webVars == <<sessions, lastProcessed, response, pending, uploads, latestTable>>
cliVars == <<cli, cliEvent>>
portVars == <<ports, portResult>>
docVars == <<docPhase, docInput, docResult>>

vars == <<pdfVars, tableVars, webVars, cliVars, portVars, docVars>>

(***************************************************************************)
(* Strings                                                                 *)
(***************************************************************************)
Chars(s) == [i \in 1..Len(s) |-> SubSeq(s, i, i)]

Min(a, b) == IF a < b THEN a ELSE b
Max(a, b) == IF a > b THEN a ELSE b
CeilDiv(a, b) == (a + b - 1) \div b

TwoByteUnits == {"U+00E2", "U+00E3", "U+00CF", "U+00D3", "U+00E9"}
ThreeByteUnits == {"U+202F"}

\* Bytes TextEncoder.encode writes for one code unit.
Utf8Width(c) ==
    IF c \in TwoByteUnits THEN 2
    ELSE IF c \in ThreeByteUnits THEN 3
    ELSE 1

\* Number of bytes TextEncoder.encode writes before code unit i of s
\* (i = Len(s) + 1 gives the length of the whole encoding).
Utf8OffsetOf(s, i) ==
    (i - 1)
    + Cardinality({j \in 1..(i - 1) : Utf8Width(s[j]) = 2})
    + 2 * Cardinality({j \in 1..(i - 1) : Utf8Width(s[j]) = 3})

DigitChars == <<"0", "1", "2", "3", "4", "5", "6", "7", "8", "9">>

RECURSIVE NatToStr(_)
NatToStr(n) ==
    IF n < 10 THEN <<DigitChars[n + 1]>>
    ELSE NatToStr(n \div 10) \o <<DigitChars[(n % 10) + 1]>>

\* Number.prototype.toString / template interpolation of an integer.
ToStr(n) == IF n < 0 THEN <<"-">> \o NatToStr(-n) ELSE NatToStr(n)

\* String.prototype.padStart(width, '0')
PadStart(s, width) ==
    IF Len(s) >= width THEN s
    ELSE [i \in 1..(width - Len(s)) |-> "0"] \o s

RECURSIVE FlattenSeq(_)
FlattenSeq(ss) ==
    IF ss = <<>> THEN <<>> ELSE Head(ss) \o FlattenSeq(Tail(ss))

\* String.prototype.split('\n')
NewlinePositions(s) == {i \in 1..Len(s) : s[i] = "\n"}

SplitLines(s) ==
    LET P == NewlinePositions(s)
        n == Cardinality(P)
        before == [p \in P |-> Cardinality({q \in P : q < p})]
        nth == [k \in 0..(n + 1) |->
                   IF k = 0 THEN 0
                   ELSE IF k = n + 1 THEN Len(s) + 1
                   ELSE CHOOSE p \in P : before[p] = k - 1]
    IN [k \in 1..(n + 1) |-> SubSeq(s, nth[k - 1] + 1, nth[k] - 1)]

RECURSIVE JoinLines(_)
JoinLines(ls) ==
    IF ls = <<>> THEN <<>>
    ELSE IF Len(ls) = 1 THEN ls[1]
    ELSE ls[1] \o <<"\n">> \o JoinLines(Tail(ls))

\* Array.prototype.join(sep), halving the array.
RECURSIVE JoinWith(_, _)
JoinWith(ls, sep) ==
    IF ls = <<>> THEN <<>>
    ELSE IF Len(ls) = 1 THEN ls[1]
    ELSE LET h == Len(ls) \div 2
         IN JoinWith(SubSeq(ls, 1, h), sep) \o sep
            \o JoinWith(SubSeq(ls, h + 1, Len(ls)), sep)

\* The sequences over S of length at most n.
RECURSIVE SeqsUpTo(_, _)
SeqsUpTo(S, n) ==
    IF n = 0 THEN {<<>>}
    ELSE LET shorter == SeqsUpTo(S, n - 1)
         IN shorter \cup {Append(s, c) : s \in {t \in shorter : Len(t) = n - 1}, c \in S}

(***************************************************************************)
(* generateInsightsPDF (src/webServer.ts:186-325)                          *)
(***************************************************************************)
pageHeight == 792
pageWidth == 612
marginTop == 50
marginBottom == 50
marginLeft == 50
lineHeight == 15
maxCharsPerLine == 85
usableHeight == pageHeight - marginTop - marginBottom
maxLinesPerPage == usableHeight \div lineHeight
linesPerPageWithHeader == maxLinesPerPage - 4

PdfSpecials == {"(", ")", "\\"}

\* s.replace(/[()\\]/g, '\\$&')
RECURSIVE EscapeFrom(_, _)
EscapeFrom(s, i) ==
    IF i > Len(s) THEN <<>>
    ELSE (IF s[i] \in PdfSpecials THEN <<"\\", s[i]>> ELSE <<s[i]>>)
         \o EscapeFrom(s, i + 1)

EscapePdf(s) == EscapeFrom(s, 1)

\* The wrapped lines one raw line gives (lines 207-215).
WrapLine(line) ==
    LET escapedLine == EscapePdf(line)
    IN IF Len(escapedLine) > maxCharsPerLine
       THEN [k \in 1..CeilDiv(Len(escapedLine), maxCharsPerLine) |->
               SubSeq(escapedLine, (k - 1) * maxCharsPerLine + 1,
                      Min(k * maxCharsPerLine, Len(escapedLine)))]
       ELSE <<escapedLine>>

\* wrappedLines after the loop of lines 206-216.
WrappedLines(text) ==
    LET rawLines == SplitLines(text)
    IN FlattenSeq([k \in 1..Len(rawLines) |-> WrapLine(rawLines[k])])

\* Mutant: the loop condition i <= wrappedLines.length.
PageStarts_InclusiveLoop(wrappedLines) ==
    LET n == (Len(wrappedLines) \div linesPerPageWithHeader) + 1
    IN [p \in 1..n |-> (p - 1) * linesPerPageWithHeader]

\* The values of i the loop of line 222 runs with.
PageStarts(wrappedLines) ==
    LET n == CeilDiv(Len(wrappedLines), linesPerPageWithHeader)
    IN [p \in 1..n |-> (p - 1) * linesPerPageWithHeader]

\* The content lines of one page (lines 242-248).
RECURSIVE ContentLines(_, _, _)
ContentLines(pageLines, j, isFirstPage) ==
    IF j > Len(pageLines) THEN <<>>
    ELSE (IF j = 1 /\ ~isFirstPage
          THEN <<"(">> \o pageLines[j] \o Chars(") Tj\n")
          ELSE Chars("0 ") \o ToStr(-lineHeight) \o Chars(" Td\n(")
               \o pageLines[j] \o Chars(") Tj\n"))
         \o ContentLines(pageLines, j + 1, isFirstPage)

\* Mutant: the clock reading is written into the title operand as well.
PageContent_StampedTitle(wrappedLines, i, title, stamp) ==
    LET pageLines == SubSeq(wrappedLines, i + 1,
                            Min(i + linesPerPageWithHeader, Len(wrappedLines)))
        isFirstPage == (i = 0)
        yPos == pageHeight - marginTop
        head == IF isFirstPage
                THEN Chars("/F1 16 Tf\n") \o ToStr(marginLeft) \o <<" ">>
                     \o ToStr(yPos) \o Chars(" Td\n(") \o EscapePdf(title)
                     \o <<" ">> \o EscapePdf(stamp) \o Chars(") Tj\n")
                     \o Chars("0 -30 Td\n/F1 10 Tf\n(Generated: ")
                     \o EscapePdf(stamp) \o Chars(") Tj\n")
                     \o Chars("0 -40 Td\n/F1 11 Tf\n")
                ELSE Chars("/F1 11 Tf\n") \o ToStr(marginLeft) \o <<" ">>
                     \o ToStr(yPos) \o Chars(" Td\n")
    IN Chars("BT\n") \o head \o ContentLines(pageLines, 1, isFirstPage)
       \o Chars("ET\n")

\* The body of the loop of lines 222-252 for one value of i.
PageContent(wrappedLines, i, title, stamp) ==
    LET pageLines == SubSeq(wrappedLines, i + 1,
                            Min(i + linesPerPageWithHeader, Len(wrappedLines)))
        isFirstPage == (i = 0)
        yPos == pageHeight - marginTop
        head == IF isFirstPage
                THEN Chars("/F1 16 Tf\n") \o ToStr(marginLeft) \o <<" ">>
                     \o ToStr(yPos) \o Chars(" Td\n(") \o EscapePdf(title)
                     \o Chars(") Tj\n")
                     \o Chars("0 -30 Td\n/F1 10 Tf\n(Generated: ")
                     \o EscapePdf(stamp) \o Chars(") Tj\n")
                     \o Chars("0 -40 Td\n/F1 11 Tf\n")
                ELSE Chars("/F1 11 Tf\n") \o ToStr(marginLeft) \o <<" ">>
                     \o ToStr(yPos) \o Chars(" Td\n")
    IN Chars("BT\n") \o head \o ContentLines(pageLines, 1, isFirstPage)
       \o Chars("ET\n")

pdfHeader ==
    Chars("%PDF-1.4\n%") \o <<"U+00E2", "U+00E3", "U+00CF", "U+00D3">> \o <<"\n">>

obj1 == Chars("1 0 obj\n<< /Type /Catalog /Pages 2 0 R >>\nendobj\n")

RECURSIVE JoinWithSpace(_)
JoinWithSpace(ss) ==
    IF ss = <<>> THEN <<>>
    ELSE IF Len(ss) = 1 THEN ss[1]
    ELSE ss[1] \o <<" ">> \o JoinWithSpace(Tail(ss))

Obj2(nPages) ==
    LET pageRefs == JoinWithSpace([idx \in 1..nPages |->
                                     ToStr(3 + (idx - 1)) \o Chars(" 0 R")])
    IN Chars("2 0 obj\n<< /Type /Pages /Kids [") \o pageRefs
       \o Chars("] /Count ") \o ToStr(nPages) \o Chars(" >>\nendobj\n")

\* Mutant: the font resource numbered after the content streams' range.
FontObjNum_AfterStreams(nPages) == 3 + 2 * nPages

FontObjNum(nPages) == 3 + nPages

ObjFont(nPages) ==
    ToStr(FontObjNum(nPages))
    \o Chars(" 0 obj\n<< /Font << /F1 << /Type /Font /Subtype /Type1 /BaseFont /Helvetica >> >> >>\nendobj\n")

\* i is the 0-based loop index of line 272.
PageObj(i, nPages) ==
    LET pageObjNum == 3 + i
        contentObjNum == FontObjNum(nPages) + 1 + i
    IN ToStr(pageObjNum)
       \o Chars(" 0 obj\n<< /Type /Page /Parent 2 0 R /Resources ")
       \o ToStr(FontObjNum(nPages)) \o Chars(" 0 R /MediaBox [0 0 ")
       \o ToStr(pageWidth) \o <<" ">> \o ToStr(pageHeight)
       \o Chars("] /Contents ") \o ToStr(contentObjNum)
       \o Chars(" 0 R >>\nendobj\n")

ContentObj(i, nPages, contentStream) ==
    LET contentObjNum == FontObjNum(nPages) + 1 + i
    IN ToStr(contentObjNum) \o Chars(" 0 obj\n<< /Length ")
       \o ToStr(Len(contentStream)) \o Chars(" >>\nstream\n")
       \o contentStream \o Chars("endstream\nendobj\n")

\* offsets after the loop of lines 297-305: offsets[k + 1] is the entry of
\* object k.
RECURSIVE OffsetsFrom(_, _, _)
OffsetsFrom(allObjects, i, currentOffset) ==
    IF i > Len(allObjects) THEN <<>>
    ELSE <<currentOffset>>
         \o OffsetsFrom(allObjects, i + 1, currentOffset + Len(allObjects[i]))

Offsets(allObjects) == <<0>> \o OffsetsFrom(allObjects, 1, Len(pdfHeader))

\* Lines 310-318.
Xref(offsets) ==
    LET totalObjects == Len(offsets)
    IN Chars("xref\n0 ") \o ToStr(totalObjects) \o <<"\n">>
       \o FlattenSeq([i \in 1..totalObjects |->
            IF i = 1 THEN Chars("0000000000 65535 f \n")
            ELSE PadStart(ToStr(offsets[i]), 10) \o Chars(" 00000 n \n")])

Trailer(totalObjects, xrefStart) ==
    Chars("trailer\n<< /Size ") \o ToStr(totalObjects)
    \o Chars(" /Root 1 0 R >>\nstartxref\n") \o ToStr(xrefStart)
    \o Chars("\n%%EOF\n")

\* The whole function; fullPDF is the string handed to TextEncoder.encode.
GenerateInsightsPDF(text, fname, stamp) ==
    LET title == Chars("Data Science Analysis Report - ") \o fname
        wrappedLines == WrappedLines(text)
        starts == PageStarts(wrappedLines)
        pages == [p \in 1..Len(starts) |->
                    PageContent(wrappedLines, starts[p], title, stamp)]
        nPages == Len(pages)
        obj2 == Obj2(nPages)
        objFont == ObjFont(nPages)
        pageObjects == [p \in 1..nPages |-> PageObj(p - 1, nPages)]
        contentObjects == [p \in 1..nPages |-> ContentObj(p - 1, nPages, pages[p])]
        allObjects == <<obj1, obj2>> \o pageObjects \o <<objFont>> \o contentObjects
        pdfBody == FlattenSeq(allObjects)
        offsets == Offsets(allObjects)
        totalObjects == Len(offsets)
        xref == Xref(offsets)
        xrefStart == Len(pdfHeader) + Len(pdfBody)
        trailer == Trailer(totalObjects, xrefStart)
    IN [ title |-> title,
         wrappedLines |-> wrappedLines,
         pages |-> pages,
         fullPDF |-> pdfHeader \o pdfBody \o xref \o trailer ]

NoPdf == [title |-> <<>>, wrappedLines |-> <<>>, pages |-> <<>>, fullPDF |-> <<>>]

(***************************************************************************)
(* Reading a document back: what a reader of the returned bytes finds      *)
(***************************************************************************)
MatchAt(s, i, pat) ==
    /\ i >= 1
    /\ i + Len(pat) - 1 <= Len(s)
    /\ \A j \in 1..Len(pat) : s[i + j - 1] = pat[j]

LineStart(s, i) == i = 1 \/ s[i - 1] = "\n"

\* The code units at which a line beginning with pat begins.
LinesBeginning(s, pat) ==
    LET p == pat
    IN {i \in 1..Len(s) : s[i] = p[1] /\ LineStart(s, i) /\ MatchAt(s, i, p)}

IsDigit(c) == \E d \in 1..10 : DigitChars[d] = c
DigitVal(c) == (CHOOSE d \in 1..10 : DigitChars[d] = c) - 1

\* The decimal number written at code unit i (the longest run of digits).
RECURSIVE ReadNatFrom(_, _, _)
ReadNatFrom(s, i, acc) ==
    IF i <= Len(s) /\ IsDigit(s[i])
    THEN ReadNatFrom(s, i + 1, acc * 10 + DigitVal(s[i]))
    ELSE acc

ReadNat(s, i) == ReadNatFrom(s, i, 0)

FirstIn(S) == CHOOSE i \in S : \A j \in S : i <= j
LastIn(S) == CHOOSE i \in S : \A j \in S : i >= j

\* Where the definition "k 0 obj" begins, as code units of the string.
ObjDefinitions(s, k) == LinesBeginning(s, ToStr(k) \o Chars(" 0 obj\n"))

\* Where the cross-reference table begins.
XrefKeyword(s) == LastIn(LinesBeginning(s, Chars("xref\n")))
XrefSize(s) == ReadNat(s, XrefKeyword(s) + Len(Chars("xref\n0 ")))
XrefFirstEntry(s) ==
    XrefKeyword(s) + Len(Chars("xref\n0 ")) + Len(ToStr(XrefSize(s))) + 1
XrefEntryLen == Len(Chars("0000000000 65535 f \n"))
\* The offset the entry of object k states.
XrefEntryOffset(s, k) == ReadNat(s, XrefFirstEntry(s) + XrefEntryLen * k)

TrailerKeyword(s) == LastIn(LinesBeginning(s, Chars("trailer\n")))
\* Entries actually written between the table's header line and the trailer.
XrefEntryCount(s) == (TrailerKeyword(s) - XrefFirstEntry(s)) \div XrefEntryLen
TrailerSize(s) ==
    ReadNat(s, TrailerKeyword(s) + Len(Chars("trailer\n<< /Size ")))
TrailerRootIsCatalog(s) ==
    MatchAt(s, TrailerKeyword(s) + Len(Chars("trailer\n<< /Size "))
               + Len(ToStr(TrailerSize(s))),
            Chars(" /Root 1 0 R >>\n"))
StartxrefValue(s) ==
    ReadNat(s, LastIn(LinesBeginning(s, Chars("startxref\n")))
               + Len(Chars("startxref\n")))

\* Page tree: the objects a reader counts.
PageObjectCount(s) ==
    Cardinality(LinesBeginning(s, Chars("<< /Type /Page /Parent 2 0 R ")))
ContentStreamCount(s) ==
    Cardinality(LinesBeginning(s, Chars("endstream\n")))
PageTreeCount(s) ==
    LET i == FirstIn(LinesBeginning(s, Chars("<< /Type /Pages /Kids [")))
        close == FirstIn({j \in i..Len(s) : s[j] = "]"})
    IN ReadNat(s, close + Len(Chars("] /Count ")))

\* The operands of the text-showing operators of one content stream.
TjOperands(pageContent) ==
    LET ls == SplitLines(pageContent)
        isTj(l) == /\ Len(l) >= 5
                   /\ l[1] = "("
                   /\ SubSeq(l, Len(l) - 3, Len(l)) = Chars(") Tj")
    IN {SubSeq(ls[k], 2, Len(ls[k]) - 4) : k \in {m \in 1..Len(ls) : isTj(ls[m])}}

\* A literal body in which every backslash escapes a following special
\* character and no parenthesis stands unescaped.
RECURSIVE WellFormedFrom(_, _)
WellFormedFrom(x, i) ==
    IF i > Len(x) THEN TRUE
    ELSE IF x[i] = "\\"
         THEN i + 1 <= Len(x) /\ x[i + 1] \in PdfSpecials /\ WellFormedFrom(x, i + 2)
         ELSE x[i] \notin {"(", ")"} /\ WellFormedFrom(x, i + 1)

WellFormedLiteral(x) == WellFormedFrom(x, 1)

(***************************************************************************)
(* Claims about generateInsightsPDF                                        *)
(***************************************************************************)
PdfDone == pdfPhase = "done"

\* C1: for every object number k from 1 to the last object, the k-th
\* cross-reference entry states the byte offset, in the UTF-8 encoding that
\* is returned, at which the definition "k 0 obj" begins.
C1_XrefOffsetsAreByteOffsets ==
    PdfDone =>
        LET s == pdfResult.fullPDF
        IN \A k \in 1..(XrefSize(s) - 1) :
              \E i \in ObjDefinitions(s, k) :
                 XrefEntryOffset(s, k) = Utf8OffsetOf(s, i)

\* C2: every text-showing operand of every content stream is a well-formed
\* literal: each parenthesis and backslash of the input is preceded by its
\* escaping backslash inside the same operand, wrapped lines included.
C2_OperandsWellFormed ==
    PdfDone =>
        \A p \in 1..Len(pdfResult.pages) :
           \A x \in TjOperands(pdfResult.pages[p]) : WellFormedLiteral(x)

\* C3: the number of pages (page objects, content streams, /Count) is
\* max(1, ceil(W / linesPerPageWithHeader)) for W wrapped lines: an empty
\* body gives 1 page, linesPerPageWithHeader - 1 lines give 1 page and
\* linesPerPageWithHeader + 1 lines give 2 pages.
ExpectedPages(W) == Max(1, CeilDiv(W, linesPerPageWithHeader))

C3_PageCount ==
    PdfDone =>
        LET s == pdfResult.fullPDF
            W == Len(pdfResult.wrappedLines)
        IN /\ PageObjectCount(s) = ExpectedPages(W)
           /\ ContentStreamCount(s) = ExpectedPages(W)
           /\ PageTreeCount(s) = ExpectedPages(W)
           /\ (insights = <<>> => PageTreeCount(s) = 1)
           /\ (W = linesPerPageWithHeader - 1 => PageTreeCount(s) = 1)
           /\ (W = linesPerPageWithHeader + 1 => PageTreeCount(s) = 2)

C3_Witness ==
    /\ PdfDone
    /\ Len(pdfResult.wrappedLines) = linesPerPageWithHeader + 1
    /\ PageObjectCount(pdfResult.fullPDF) = 2

\* C10: the number after startxref is the byte offset, in the UTF-8
\* encoding that is returned, at which the xref keyword begins; the trailer
\* names /Root 1 0 R and /Size is the number of cross-reference entries.
C10_StartxrefAndTrailer ==
    PdfDone =>
        LET s == pdfResult.fullPDF
        IN /\ StartxrefValue(s) = Utf8OffsetOf(s, XrefKeyword(s))
           /\ TrailerRootIsCatalog(s)
           /\ TrailerSize(s) = XrefEntryCount(s)


(***************************************************************************)
(* JavaScript numbers: a finite value is the exact rational n/d, next to   *)
(* the values Infinity, -Infinity and NaN of IEEE 754 arithmetic.          *)
(***************************************************************************)
RECURSIVE Gcd(_, _)
Gcd(a, b) == IF b = 0 THEN a ELSE Gcd(b, a % b)

Abs(x) == IF x < 0 THEN -x ELSE x

Rat(n, d) ==
    LET g == Gcd(Abs(n), Abs(d))
        sgn == IF d < 0 THEN -1 ELSE 1
    IN [k |-> "fin", n |-> sgn * (n \div g), d |-> sgn * (d \div g)]

Fin(n) == [k |-> "fin", n |-> n, d |-> 1]
NaN == [k |-> "nan", n |-> 0, d |-> 1]
PInf == [k |-> "pinf", n |-> 0, d |-> 1]
NInf == [k |-> "ninf", n |-> 0, d |-> 1]

IsNaN(a) == a.k = "nan"

\* -1, 0 or 1 for a value that is not NaN.
Sign(a) ==
    IF a.k = "pinf" THEN 1
    ELSE IF a.k = "ninf" THEN -1
    ELSE IF a.n > 0 THEN 1 ELSE IF a.n < 0 THEN -1 ELSE 0

Signed(sgn) == IF sgn > 0 THEN PInf ELSE NInf

FNeg(a) ==
    IF a.k = "nan" THEN NaN
    ELSE IF a.k = "pinf" THEN NInf
    ELSE IF a.k = "ninf" THEN PInf
    ELSE Rat(-a.n, a.d)

FAdd(a, b) ==
    IF a.k = "nan" \/ b.k = "nan" THEN NaN
    ELSE IF a.k = "fin" /\ b.k = "fin" THEN Rat(a.n * b.d + b.n * a.d, a.d * b.d)
    ELSE IF a.k = "fin" THEN b
    ELSE IF b.k = "fin" THEN a
    ELSE IF a.k = b.k THEN a ELSE NaN

FSub(a, b) == FAdd(a, FNeg(b))

FMul(a, b) ==
    IF a.k = "nan" \/ b.k = "nan" THEN NaN
    ELSE IF a.k = "fin" /\ b.k = "fin" THEN Rat(a.n * b.n, a.d * b.d)
    ELSE IF Sign(a) = 0 \/ Sign(b) = 0 THEN NaN
    ELSE Signed(Sign(a) * Sign(b))

FDiv(a, b) ==
    IF a.k = "nan" \/ b.k = "nan" THEN NaN
    ELSE IF a.k = "fin" /\ b.k = "fin"
         THEN IF b.n = 0
              THEN (IF a.n = 0 THEN NaN ELSE Signed(Sign(a)))
              ELSE Rat(a.n * b.d, a.d * b.n)
    ELSE IF a.k = "fin" THEN Fin(0)
    ELSE IF b.k = "fin" THEN Signed(Sign(a) * (IF Sign(b) < 0 THEN -1 ELSE 1))
    ELSE NaN

\* a < b; false as soon as one side is NaN.
FLess(a, b) ==
    IF a.k = "nan" \/ b.k = "nan" THEN FALSE
    ELSE IF a.k = "fin" /\ b.k = "fin" THEN a.n * b.d < b.n * a.d
    ELSE IF a.k = b.k THEN FALSE
    ELSE a.k = "ninf" \/ b.k = "pinf"

FGreater(a, b) == FLess(b, a)
FLeq(a, b) == ~IsNaN(a) /\ ~IsNaN(b) /\ ~FLess(b, a)
FGeq(a, b) == FLeq(b, a)

(***************************************************************************)
(* Cell strings (TableData.rows holds strings)                             *)
(***************************************************************************)
Whitespace == {" ", "\t", "\n"}

\* String.prototype.trim
RECURSIVE Trim(_)
Trim(s) ==
    IF Len(s) = 0 THEN s
    ELSE IF SubSeq(s, 1, 1) \in Whitespace THEN Trim(SubSeq(s, 2, Len(s)))
    ELSE IF SubSeq(s, Len(s), Len(s)) \in Whitespace THEN Trim(SubSeq(s, 1, Len(s) - 1))
    ELSE s

\* The number of digits at the start of the code units cs from index i.
RECURSIVE DigitRun(_, _)
DigitRun(cs, i) ==
    IF i <= Len(cs) /\ IsDigit(cs[i]) THEN 1 + DigitRun(cs, i + 1) ELSE 0

RECURSIVE Pow10(_)
Pow10(e) == IF e = 0 THEN 1 ELSE 10 * Pow10(e - 1)

\* parseFloat: leading white space is skipped and the longest prefix that is
\* a decimal literal is converted: an optional sign, then Infinity or digits
\* with an optional fraction; NaN when there is no such prefix.  (Exponent
\* notation is not among the cells of the datasets below.)
ParseFloat(v) ==
    LET cs == Chars(Trim(v))
        signed == Len(cs) >= 1 /\ cs[1] \in {"+", "-"}
        sgn == IF signed /\ cs[1] = "-" THEN -1 ELSE 1
        b == IF signed THEN 2 ELSE 1
        intLen == DigitRun(cs, b)
        hasDot == b + intLen <= Len(cs) /\ cs[b + intLen] = "."
        fracLen == IF hasDot THEN DigitRun(cs, b + intLen + 1) ELSE 0
        intVal == ReadNat(cs, b)
        fracVal == IF fracLen > 0 THEN ReadNat(cs, b + intLen + 1) ELSE 0
    IN IF MatchAt(cs, b, Chars("Infinity")) THEN Signed(sgn)
       ELSE IF intLen = 0 /\ fracLen = 0 THEN NaN
       ELSE Rat(sgn * (intVal * Pow10(fracLen) + fracVal), Pow10(fracLen))

\* The test of lines 270 and 296: !cell || !cell.trim()
IsEmptyCell(cell) == cell = "" \/ Trim(cell) = ""

\* Array.prototype.join("|") of a row
RECURSIVE JoinRow(_)
JoinRow(row) ==
    IF row = <<>> THEN ""
    ELSE IF Len(row) = 1 THEN row[1]
    ELSE row[1] \o "|" \o JoinRow(Tail(row))

\* Array.prototype.indexOf, 1-based; 0 when absent
IndexOf(seq, x) ==
    IF \E i \in 1..Len(seq) : seq[i] = x
    THEN CHOOSE i \in 1..Len(seq) : seq[i] = x /\ \A j \in 1..(i - 1) : seq[j] # x
    ELSE 0

RECURSIVE SumNums(_)
SumNums(seq) == IF seq = <<>> THEN Fin(0) ELSE FAdd(SumNums(Tail(seq)), Head(seq))

\* Array.prototype.sort((a, b) => a - b): an insertion in ascending order; a
\* comparison whose difference is NaN counts as equal.
RECURSIVE InsertSorted(_, _)
InsertSorted(sorted, x) ==
    IF sorted = <<>> THEN <<x>>
    ELSE IF Sign(FSub(x, Head(sorted))) < 0 /\ ~IsNaN(FSub(x, Head(sorted)))
         THEN <<x>> \o sorted
         ELSE <<Head(sorted)>> \o InsertSorted(Tail(sorted), x)

RECURSIVE SortAscending(_)
SortAscending(seq) ==
    IF seq = <<>> THEN <<>>
    ELSE InsertSorted(SortAscending(SubSeq(seq, 1, Len(seq) - 1)), seq[Len(seq)])


(***************************************************************************)
(* TableProcessor.generateInsights (src/unnamed/part_003:255-554)          *)
(* The report is modelled by the quantities it prints.                     *)
(***************************************************************************)
\* Lines 268-272.
TotalCells(data) == data.rowCount * Len(data.headers)

RECURSIVE EmptyCount(_)
EmptyCount(rows) ==
    IF rows = <<>> THEN 0
    ELSE Len(SelectSeq(Head(rows), IsEmptyCell)) + EmptyCount(Tail(rows))

Completeness(data) ==
    LET totalCells == TotalCells(data)
        emptyCount == EmptyCount(data.rows)
    IN FMul(FDiv(Fin(totalCells - emptyCount), Fin(totalCells)), Fin(100))

\* Line 296: the non-empty cells of the column of a header.
ColumnValues(data, header) ==
    LET colIndex == IndexOf(data.headers, header)
        cells == [r \in 1..Len(data.rows) |-> data.rows[r][colIndex]]
    IN SelectSeq(cells, LAMBDA val : ~IsEmptyCell(val))

\* Line 306.
NumericValues(values) ==
    SelectSeq([i \in 1..Len(values) |-> ParseFloat(values[i])],
              LAMBDA v : ~IsNaN(v))

\* Mutant: numericValues.length >= values.length * 0.5
IsNumeric_AtLeastHalf(values) == 2 * Len(NumericValues(values)) >= Len(values)

\* Line 307: numericValues.length > values.length * 0.5
IsNumeric(values) == 2 * Len(NumericValues(values)) > Len(values)

\* Line 308.
MissingCount(data, values) == data.rowCount - Len(values)

\* Lines 320-322; sorted is 1-based here.
Median(sorted) ==
    LET len == Len(sorted)
    IN IF len % 2 = 0
       THEN FDiv(FAdd(sorted[len \div 2], sorted[(len \div 2) + 1]), Fin(2))
       ELSE sorted[(len \div 2) + 1]

\* Mutant: the first quartile taken at Math.floor(n * 0.5).
Q1Index_Half(n) == n \div 2

\* Lines 330-331: Math.floor(n * 0.25) and Math.floor(n * 0.75), 0-based.
Q1Index(n) == n \div 4
Q3Index(n) == (3 * n) \div 4

\* Lines 337-339.
OutlierFactor == Rat(3, 2)
LowerBound(q1, iqr) == FSub(q1, FMul(OutlierFactor, iqr))
UpperBound(q3, iqr) == FAdd(q3, FMul(OutlierFactor, iqr))
Outliers(numericValues, lowerBound, upperBound) ==
    SelectSeq(numericValues,
              LAMBDA v : FLess(v, lowerBound) \/ FGreater(v, upperBound))

\* Lines 325-326: the mean of the squared differences from the mean.
Variance(numericValues, mean) ==
    LET squaredDiffs == [i \in 1..Len(numericValues) |->
                            FMul(FSub(numericValues[i], mean),
                                 FSub(numericValues[i], mean))]
    IN FDiv(SumNums(squaredDiffs), Fin(Len(numericValues)))

\* Math.abs
FAbs(a) == IF IsNaN(a) THEN NaN ELSE IF Sign(a) < 0 THEN FNeg(a) ELSE a

\* Line 349 has stdDev * 0.1 on its right-hand side.
SkewTolerance == Rat(1, 10)

\* Mutant: Math.abs(mean - median) <= stdDev * 0.1
IsSymmetric_AtMost(mean, median, variance) ==
    LET diff == FAbs(FSub(mean, median))
    IN FLeq(FMul(diff, diff), FMul(FMul(SkewTolerance, SkewTolerance), variance))

\* Line 349: Math.abs(mean - median) < stdDev * 0.1 with stdDev =
\* Math.sqrt(variance) of line 327.  Neither side is negative, so the test
\* is the comparison of the squares, |mean - median|^2 < 0.01 * variance;
\* it is false as soon as one side is NaN.
IsSymmetric(mean, median, variance) ==
    LET diff == FAbs(FSub(mean, median))
    IN FLess(FMul(diff, diff), FMul(FMul(SkewTolerance, SkewTolerance), variance))

\* Lines 348-357.
SkewDescription(mean, median, variance) ==
    IF IsSymmetric(mean, median, variance) THEN "symmetric"
    ELSE IF FGreater(mean, median) THEN "right-skewed"
    ELSE "left-skewed"

NoStats ==
    [ n |-> 0, sorted |-> <<>>, mean |-> NaN, median |-> NaN, q1 |-> NaN,
      q3 |-> NaN, iqr |-> NaN, lowerBound |-> NaN, upperBound |-> NaN,
      outliers |-> <<>>, variance |-> NaN, skew |-> "" ]

\* Lines 312-344: the statistics of a numeric column.
NumericStats(numericValues) ==
    LET n == Len(numericValues)
        sum == SumNums(numericValues)
        mean == FDiv(sum, Fin(n))
        sorted == SortAscending(numericValues)
        median == Median(sorted)
        q1 == sorted[Q1Index(n) + 1]
        q3 == sorted[Q3Index(n) + 1]
        iqr == FSub(q3, q1)
        lowerBound == LowerBound(q1, iqr)
        upperBound == UpperBound(q3, iqr)
        variance == Variance(numericValues, mean)
    IN [ n |-> n, sorted |-> sorted, mean |-> mean, median |-> median,
         q1 |-> q1, q3 |-> q3, iqr |-> iqr,
         lowerBound |-> lowerBound, upperBound |-> upperBound,
         outliers |-> Outliers(numericValues, lowerBound, upperBound),
         variance |-> variance,
         skew |-> SkewDescription(mean, median, variance) ]

\* Lines 382-383: the entries of the frequency Map, in the order in which
\* the values first occur in the column.
Frequency(values) ==
    LET firsts == {i \in 1..Len(values) : \A j \in 1..(i - 1) : values[j] # values[i]}
        nth == [k \in 1..Cardinality(firsts) |->
                   CHOOSE i \in firsts : Cardinality({j \in firsts : j < i}) = k - 1]
    IN [k \in 1..Cardinality(firsts) |->
           [ val |-> values[nth[k]],
             count |-> Cardinality({j \in 1..Len(values) : values[j] = values[nth[k]]}) ]]

\* Line 385: sort((a, b) => b[1] - a[1]).  Array.prototype.sort is stable:
\* an entry goes behind every entry already placed whose count is not smaller.
RECURSIVE InsertByCount(_, _)
InsertByCount(sorted, x) ==
    IF sorted = <<>> THEN <<x>>
    ELSE IF Head(sorted).count < x.count
         THEN <<x>> \o sorted
         ELSE <<Head(sorted)>> \o InsertByCount(Tail(sorted), x)

RECURSIVE SortByCount(_)
SortByCount(entries) ==
    IF entries = <<>> THEN <<>>
    ELSE InsertByCount(SortByCount(SubSeq(entries, 1, Len(entries) - 1)),
                       entries[Len(entries)])

\* Line 386: slice(0, 5)
TopCount == 5

\* Mutant: the entries are cut before they are sorted.
TopValues_SliceFirst(values) ==
    SortByCount(SubSeq(Frequency(values), 1, Min(TopCount, Len(Frequency(values)))))

\* Lines 382-386.
TopValues(values) ==
    LET entries == SortByCount(Frequency(values))
    IN SubSeq(entries, 1, Min(TopCount, Len(entries)))

\* Line 378: uniqueValues.size < values.length * 0.5 && uniqueValues.size > 1
CountedCategorical(values) ==
    LET size == Cardinality({values[i] : i \in 1..Len(values)})
    IN 2 * size < Len(values) /\ size > 1

\* Line 392: cardinality === values.length, the first test of the sentence
\* after the cardinality ratio.
LikelyIdentifier(values) ==
    Cardinality({values[i] : i \in 1..Len(values)}) = Len(values)

\* One pass of the loop of lines 294-405.
AnalyseColumn(data, header) ==
    LET values == ColumnValues(data, header)
    IN IF Len(values) = 0
       THEN [ header |-> header, kind |-> "empty", valueCount |-> 0,
              missingCount |-> 0, cardinality |-> 0, stats |-> NoStats,
              counted |-> FALSE, topValues |-> <<>>, identifier |-> FALSE ]
       ELSE [ header |-> header,
              kind |-> IF IsNumeric(values) THEN "numeric" ELSE "categorical",
              valueCount |-> Len(values),
              missingCount |-> MissingCount(data, values),
              cardinality |-> Cardinality({values[i] : i \in 1..Len(values)}),
              stats |-> IF IsNumeric(values)
                        THEN NumericStats(NumericValues(values))
                        ELSE NoStats,
              counted |-> ~IsNumeric(values) /\ CountedCategorical(values),
              topValues |-> IF IsNumeric(values) THEN <<>> ELSE TopValues(values),
              identifier |-> ~IsNumeric(values) /\ LikelyIdentifier(values) ]

\* Lines 412-414.
Duplicates(data) ==
    LET rowStrings == [r \in 1..Len(data.rows) |-> JoinRow(data.rows[r])]
        uniqueRows == {rowStrings[r] : r \in 1..Len(rowStrings)}
    IN data.rowCount - Cardinality(uniqueRows)

\* The headers pushed to one of the lists of lines 289-291 for the chosen
\* columns, in column order.
Pushed(chosen) == [i \in 1..Len(chosen) |-> chosen[i].header]

\* Lines 353 and 356: the entries of skewedColumns.
SkewedColumns(columns) ==
    LET chosen == SelectSeq(columns,
                            LAMBDA col : col.kind = "numeric"
                                            /\ col.stats.skew # "symmetric")
    IN [i \in 1..Len(chosen) |->
           [header |-> chosen[i].header, skew |-> chosen[i].stats.skew]]

\* Mutant: the recommendation is made as soon as a column is numeric.
GradientBoosting_NumericOnly(numericColumns, categoricalColumns) ==
    Len(numericColumns) > 0

\* Line 480: the test in front of the gradient boosting recommendation.
GradientBoosting(numericColumns, categoricalColumns) ==
    Len(numericColumns) > 0 /\ Len(categoricalColumns) > 0

GenerateInsights(data) ==
    LET columns == [c \in 1..Len(data.headers) |-> AnalyseColumn(data, data.headers[c])]
        numericColumns == Pushed(SelectSeq(columns, LAMBDA col : col.kind = "numeric"))
        categoricalColumns == Pushed(SelectSeq(columns, LAMBDA col : col.counted))
    IN [ completeness |-> Completeness(data),
         columns |-> columns,
         duplicates |-> Duplicates(data),
         numericColumns |-> numericColumns,
         categoricalColumns |-> categoricalColumns,
         skewedColumns |-> SkewedColumns(columns),
         gradientBoosting |-> GradientBoosting(numericColumns, categoricalColumns) ]

NoProfile ==
    [ completeness |-> NaN, columns |-> <<>>, duplicates |-> 0,
      numericColumns |-> <<>>, categoricalColumns |-> <<>>, skewedColumns |-> <<>>,
      gradientBoosting |-> FALSE ]

(***************************************************************************)
(* Datasets handed to the profiler.  The loaders processCSV / processExcel *)
(* (src/unnamed/part_003:11-76) give every row one trimmed string per      *)
(* header and set rowCount to the number of rows.                          *)
(***************************************************************************)
MaxRows == 4
MaxRowsWide == 3

TableOf(headers, rows) == [headers |-> headers, rows |-> rows, rowCount |-> Len(rows)]

ColValues == {"", "1", "-3", "9", "x", "2x", "Infinity"}
PairValues == {"", "1", "|"}

NarrowTables ==
    {TableOf(<<"age">>, [r \in 1..Len(col) |-> <<col[r]>>]) :
        col \in SeqsUpTo(ColValues, MaxRows)}

WideRows == {<<a, b>> : a \in PairValues, b \in PairValues}
WideTables ==
    {TableOf(<<"age", "city">>, rows) : rows \in SeqsUpTo(WideRows, MaxRowsWide)}

\* A sheet whose first row is blank has no header at all.
HeaderlessTables ==
    {TableOf(<<>>, [r \in 1..n |-> <<>>]) : n \in 0..MaxRowsWide}

\* A column of seven categories, three of them twice, the last one past the
\* fifth entry of the frequency Map.
CategoryCells == <<"b", "a", "c", "a", "d", "e", "f", "g", "g", "c">>

ExampleTables ==
    { TableOf(<<"age", "city">>, <<<<"34", "NYC">>, <<"29", "LA">>, <<"34", "NYC">>>>),
      TableOf(<<"v">>, <<<<"1">>, <<"2">>, <<"3">>, <<"4">>, <<"100">>>>),
      TableOf(<<"age", "city">>,
              <<<<"34", "NYC">>, <<"29", "LA">>, <<"34", "NYC">>, <<"41", "LA">>,
                <<"29", "NYC">>>>),
      TableOf(<<"tag">>, [r \in 1..Len(CategoryCells) |-> <<CategoryCells[r]>>]) }

Datasets == NarrowTables \cup WideTables \cup HeaderlessTables \cup ExampleTables

(***************************************************************************)
(* Report texts handed to the synthesizer                                  *)
(***************************************************************************)
MaxTail == 2

TailAlphabet == {"a", "(", ")", "\\", "U+00E9"}
Tails == SeqsUpTo(TailAlphabet, MaxTail)

\* Filler lines before the probe line: around a page boundary.
FillCounts == {0, linesPerPageWithHeader - 2, linesPerPageWithHeader - 1,
               linesPerPageWithHeader}
\* Plain characters at the start of the probe line: around the wrap column.
PadCounts == {0, maxCharsPerLine - 1, maxCharsPerLine}

ReportText(nFill, nPad, tail) ==
    JoinLines([k \in 1..nFill |-> <<"a">>] \o <<[k \in 1..nPad |-> "a"] \o tail>>)

Filenames == {Chars("r.csv"), Chars("(") \o <<"U+00E9">> \o Chars(".csv")}
Timestamps == {Chars("1/2/2026, 3:04:05 PM"),
               Chars("1/2/2026, 3:04:05") \o <<"U+202F">> \o Chars("PM")}

\* The file name and the clock reading of one request: plain, or each with
\* characters outside ASCII.
Headings ==
    { [filename |-> Chars("r.csv"), timestamp |-> Chars("1/2/2026, 3:04:05 PM")],
      [filename |-> Chars("(") \o <<"U+00E9">> \o Chars(".csv"),
       timestamp |-> Chars("1/2/2026, 3:04:05") \o <<"U+202F">> \o Chars("PM")] }

\* One-line reports of two words around the wrap column.
WordText(n1, n2) == [k \in 1..n1 |-> "a"] \o <<" ">> \o [k \in 1..n2 |-> "b"]
WordTexts ==
    {WordText(p[1], p[2]) : p \in {<<80, 10>>, <<84, 1>>, <<85, 3>>, <<40, 40>>, <<0, 90>>}}

\* A report that fills more than three pages: object numbers of two digits.
ManyPages == 4
PageTexts ==
    {JoinWith([k \in 1..((ManyPages - 1) * linesPerPageWithHeader + 1) |-> <<"a">>],
              <<"\n">>)}

\* The report of a session whose PDF is requested twice, and the clock
\* readings of the two requests (toLocaleString has no fixed width).
RepeatTexts ==
    {ReportText(nFill, 0, tail) :
        nFill \in FillCounts, tail \in {<<>>, <<"a">>, <<"(", "U+00E9">>}}
RepeatTimestamps == Timestamps \cup {Chars("11/12/2026, 10:04:05 PM")}

NoPdfAgain == [timestamp |-> <<>>, fullPDF |-> <<>>]

(***************************************************************************)
(* Actions of the PDF request                                              *)
(***************************************************************************)
\* /api/insights/pdf receives a report text for the session's file.
ReceiveReport ==
    /\ pdfPhase = "input"
    /\ \/ \E nFill \in FillCounts, nPad \in PadCounts, tail \in Tails :
             insights' = ReportText(nFill, nPad, tail)
       \/ \E text \in WordTexts : insights' = text
       \/ \E text \in PageTexts : insights' = text
    /\ \E h \in Headings : filename' = h.filename /\ timestamp' = h.timestamp
    /\ pdfPhase' = "ready"
    /\ UNCHANGED <<pdfResult, pdfAgain, tableVars, webVars, cliVars, portVars, docVars>>

RunGenerateInsightsPDF ==
    /\ pdfPhase = "ready"
    /\ pdfResult' = GenerateInsightsPDF(insights, filename, timestamp)
    /\ pdfPhase' = "done"
    /\ UNCHANGED <<insights, filename, timestamp, pdfAgain,
                   tableVars, webVars, cliVars, portVars, docVars>>

NextPdf == ReceiveReport \/ RunGenerateInsightsPDF

\* The download is requested for a session whose report and file name stay
\* the same from one request to the next.
ReceiveRepeatedRequest ==
    /\ pdfPhase = "input"
    /\ \E text \in RepeatTexts : insights' = text
    /\ \E f \in Filenames : filename' = f
    /\ \E t \in RepeatTimestamps : timestamp' = t
    /\ pdfPhase' = "ready"
    /\ UNCHANGED <<pdfResult, pdfAgain, tableVars, webVars, cliVars, portVars, docVars>>

\* The second request: the same arguments, a new clock reading.
RunGenerateInsightsPDFAgain ==
    /\ pdfPhase = "done"
    /\ \E t \in RepeatTimestamps :
          pdfAgain' = [ timestamp |-> t,
                        fullPDF |-> GenerateInsightsPDF(insights, filename, t).fullPDF ]
    /\ pdfPhase' = "again"
    /\ UNCHANGED <<insights, filename, timestamp, pdfResult,
                   tableVars, webVars, cliVars, portVars, docVars>>

NextPdfTwice ==
    ReceiveRepeatedRequest \/ RunGenerateInsightsPDF \/ RunGenerateInsightsPDFAgain


(***************************************************************************)
(* Actions of the profiler tools (src/unnamed/part_000:183-255)            *)
(***************************************************************************)
NoTable == [headers |-> <<>>, rows |-> <<>>, rowCount |-> 0]

\* process_table: the loaded table is saved as the latest table_data.
ProcessTable ==
    /\ tablePhase = "empty"
    /\ \E d \in Datasets : tableData' = d
    /\ tablePhase' = "stored"
    /\ UNCHANGED <<toolResult, toolAgain, pdfVars, webVars, cliVars, portVars, docVars>>

\* Mutant: the call sorts the rows of its argument in place.
ExtractInsights_SortsRowsInPlace ==
    /\ tablePhase \in {"empty", "stored"}
    /\ IF tablePhase = "empty"
       THEN /\ toolResult' = [error |-> TRUE, profile |-> NoProfile]
            /\ tablePhase' = "refused"
            /\ tableData' = tableData
       ELSE /\ toolResult' = [error |-> FALSE, profile |-> GenerateInsights(tableData)]
            /\ tablePhase' = "reported"
            /\ tableData' =
                  [tableData EXCEPT !.rows =
                      [r \in 1..Len(tableData.rows) |->
                          tableData.rows[Len(tableData.rows) + 1 - r]]]
    /\ UNCHANGED <<toolAgain, pdfVars, webVars, cliVars, portVars, docVars>>

\* extract_insights: an error object when no table data is stored or an
\* exception is caught; generateInsights itself has no throw statement.
ExtractInsights ==
    /\ tablePhase \in {"empty", "stored"}
    /\ IF tablePhase = "empty"
       THEN /\ toolResult' = [error |-> TRUE, profile |-> NoProfile]
            /\ tablePhase' = "refused"
       ELSE /\ toolResult' = [error |-> FALSE, profile |-> GenerateInsights(tableData)]
            /\ tablePhase' = "reported"
    /\ UNCHANGED <<tableData, toolAgain, pdfVars, webVars, cliVars, portVars, docVars>>

\* extract_insights once more on the same stored data.  generateInsights
\* assigns to no field of its argument (the one sort is on a copy, line 316)
\* and reads nothing but its argument.
ExtractInsightsAgain ==
    /\ tablePhase = "reported"
    /\ toolAgain' = [error |-> FALSE, profile |-> GenerateInsights(tableData)]
    /\ tablePhase' = "repeated"
    /\ UNCHANGED <<tableData, toolResult, pdfVars, webVars, cliVars, portVars, docVars>>

NextTable == ProcessTable \/ ExtractInsights \/ ExtractInsightsAgain

(***************************************************************************)
(* generatePDFFromText (src/unnamed/part_002:186-317), the document the    *)
(* command line saves                                                      *)
(***************************************************************************)
linesPerPage == 55

LowerLetters == Chars("abcdefghijklmnopqrstuvwxyz") \o <<"U+00E9">>
UpperLetters == Chars("ABCDEFGHIJKLMNOPQRSTUVWXYZ") \o <<"U+00C9">>

\* String.prototype.toUpperCase / toLowerCase, one code unit at a time.
ToUpperCase(s) ==
    [i \in 1..Len(s) |->
        IF \E k \in 1..Len(LowerLetters) : LowerLetters[k] = s[i]
        THEN UpperLetters[CHOOSE k \in 1..Len(LowerLetters) : LowerLetters[k] = s[i]]
        ELSE s[i]]

ToLowerCase(s) ==
    [i \in 1..Len(s) |->
        IF \E k \in 1..Len(UpperLetters) : UpperLetters[k] = s[i]
        THEN LowerLetters[CHOOSE k \in 1..Len(UpperLetters) : UpperLetters[k] = s[i]]
        ELSE s[i]]

\* String.prototype.trim on a sequence of code units.
RECURSIVE TrimUnits(_)
TrimUnits(s) ==
    IF s = <<>> THEN s
    ELSE IF s[1] \in Whitespace THEN TrimUnits(Tail(s))
    ELSE IF s[Len(s)] \in Whitespace THEN TrimUnits(SubSeq(s, 1, Len(s) - 1))
    ELSE s

\* String.prototype.split(sep) for a separator of one code unit.
SplitBy(s, sep) ==
    LET P == {i \in 1..Len(s) : s[i] = sep}
        n == Cardinality(P)
        before == [p \in P |-> Cardinality({q \in P : q < p})]
        nth == [k \in 0..(n + 1) |->
                   IF k = 0 THEN 0
                   ELSE IF k = n + 1 THEN Len(s) + 1
                   ELSE CHOOSE p \in P : before[p] = k - 1]
    IN [k \in 1..(n + 1) |-> SubSeq(s, nth[k - 1] + 1, nth[k] - 1)]

\* String.prototype.indexOf: 0-based, -1 when absent.
IndexOfString(s, pat) ==
    LET M == {i \in 1..(Len(s) - Len(pat) + 1) : s[i] = pat[1] /\ MatchAt(s, i, pat)}
    IN IF M = {} THEN -1 ELSE FirstIn(M) - 1

\* s.replace(/[()\\]/g, '')
StripPdf(s) == SelectSeq(s, LAMBDA c : c \notin PdfSpecials)

\* The loop of lines 259-275 from word i on; each element of the result is
\* one line pushed on contentLines.
RECURSIVE WrapWords(_, _, _)
WrapWords(words, i, currentLine) ==
    LET flush == IF currentLine # <<>>
                 THEN << <<"(">> \o StripPdf(currentLine) \o Chars(") Tj"),
                         Chars("0 -11 Td") >>
                 ELSE <<>>
    IN IF i > Len(words) THEN flush
       ELSE LET word == words[i]
                testLine == currentLine
                            \o (IF currentLine # <<>> THEN <<" ">> ELSE <<>>) \o word
            IN IF Len(testLine) <= 80
               THEN WrapWords(words, i + 1, testLine)
               ELSE flush \o WrapWords(words, i + 1, word)

\* Lines 245-276: what one input line pushes on contentLines.
RenderLine(line) ==
    LET trimmed == TrimUnits(line)
    IN IF Len(trimmed) = 0 THEN <<Chars("0 -8 Td")>>
       ELSE IF /\ line = ToUpperCase(line)
               /\ Len(trimmed) < 60
               /\ \A i \in 1..Len(line) : line[i] # ":"
            THEN << Chars("/F2 11 Tf"),
                    <<"(">> \o StripPdf(SubSeq(trimmed, 1, Min(75, Len(trimmed))))
                        \o Chars(") Tj"),
                    Chars("0 -14 Td"),
                    Chars("/F1 10 Tf") >>
            ELSE WrapWords(SplitBy(line, " "), 1, <<>>)

\* Lines 241-242, 0-based: the input lines [startLine, endLine) of a page.
StartLine(pageNum) == IF pageNum = 0 THEN 0 ELSE pageNum * linesPerPage
EndLine(pageNum, nLines) ==
    Min(StartLine(pageNum) + (IF pageNum = 0 THEN linesPerPage - 5 ELSE linesPerPage),
        nLines)

\* Lines 225-284: streamContent of page pageNum (0-based).
StreamContent(lines, pageNum, totalPages, fname, stamp) ==
    LET head == IF pageNum = 0
                THEN << Chars("/F2 14 Tf"),
                        Chars("(DATA SCIENCE ANALYSIS REPORT) Tj"),
                        Chars("0 -18 Td"),
                        Chars("/F1 9 Tf"),
                        Chars("(Dataset: ")
                            \o SubSeq(StripPdf(fname), 1, Min(60, Len(StripPdf(fname))))
                            \o Chars(") Tj"),
                        Chars("0 -12 Td"),
                        Chars("(Generated: ") \o stamp \o Chars(") Tj"),
                        Chars("0 -20 Td") >>
                ELSE <<>>
        startLine == StartLine(pageNum)
        endLine == EndLine(pageNum, Len(lines))
        body == FlattenSeq([i \in 1..(endLine - startLine) |->
                               RenderLine(lines[startLine + i])])
        contentLines == <<Chars("BT"), Chars("/F1 10 Tf"), Chars("50 750 Td")>>
                        \o head \o body
                        \o << Chars("0 -15 Td"),
                              Chars("/F1 8 Tf"),
                              Chars("(Page ") \o ToStr(pageNum + 1) \o Chars(" of ")
                                  \o ToStr(totalPages) \o Chars(") Tj"),
                              Chars("ET") >>
    IN JoinWith(contentLines, <<"\n">>)

\* The whole function; pdfString is the string handed to TextEncoder.encode.
GeneratePDFFromText(content, fname, stamp) ==
    LET lines == SplitLines(content)
        totalPages == CeilDiv(Len(lines), linesPerPage)
        pageObjects == [p \in 1..totalPages |-> 3 + 2 * (p - 1)]
        contentObjects == [p \in 1..totalPages |-> 4 + 2 * (p - 1)]
        resourcesObj == 3 + 2 * totalPages
        currentObj == resourcesObj + 1
        streams == [p \in 1..totalPages |->
                       StreamContent(lines, p - 1, totalPages, fname, stamp)]
        pageLines(p) ==
            << ToStr(pageObjects[p]) \o Chars(" 0 obj"),
               Chars("<< /Type /Page /Parent 2 0 R /Resources ") \o ToStr(resourcesObj)
                   \o Chars(" 0 R /MediaBox [0 0 612 792] /Contents ")
                   \o ToStr(contentObjects[p]) \o Chars(" 0 R >>"),
               Chars("endobj"),
               ToStr(contentObjects[p]) \o Chars(" 0 obj"),
               Chars("<< /Length ") \o ToStr(Len(streams[p])) \o Chars(" >>"),
               Chars("stream"),
               streams[p],
               Chars("endstream"),
               Chars("endobj") >>
        objectLines ==
            << Chars("%PDF-1.4"),
               Chars("1 0 obj"),
               Chars("<< /Type /Catalog /Pages 2 0 R >>"),
               Chars("endobj"),
               Chars("2 0 obj"),
               Chars("<< /Type /Pages /Kids [")
                   \o JoinWith([p \in 1..totalPages |->
                                   ToStr(pageObjects[p]) \o Chars(" 0 R")], <<" ">>)
                   \o Chars("] /Count ") \o ToStr(totalPages) \o Chars(" >>"),
               Chars("endobj"),
               ToStr(resourcesObj) \o Chars(" 0 obj"),
               Chars("<< /Font << /F1 << /Type /Font /Subtype /Type1 /BaseFont /Courier >> /F2 << /Type /Font /Subtype /Type1 /BaseFont /Courier-Bold >> >> >>"),
               Chars("endobj") >>
            \o FlattenSeq([p \in 1..totalPages |-> pageLines(p)])
        pdfContent == JoinWith(objectLines, <<"\n">>)
        positions == [i \in 1..(currentObj - 1) |->
                         IndexOfString(pdfContent, ToStr(i) \o Chars(" 0 obj"))]
        found == SelectSeq([i \in 1..(currentObj - 1) |-> i],
                           LAMBDA i : positions[i] # -1)
        xrefEntries == <<Chars("0000000000 65535 f ")>>
                       \o [j \in 1..Len(found) |->
                             PadStart(ToStr(positions[found[j]]), 10) \o Chars(" 00000 n ")]
        upToStartxref ==
            objectLines
            \o <<Chars("xref"), Chars("0 ") \o ToStr(currentObj)>>
            \o xrefEntries
            \o << Chars("trailer"),
                  Chars("<< /Size ") \o ToStr(currentObj) \o Chars(" /Root 1 0 R >>"),
                  Chars("startxref") >>
        pdfLines == upToStartxref
                    \o << ToStr(Len(JoinWith(upToStartxref, <<"\n">>)) - 200), Chars("%%EOF") >>
    IN [ lines |-> lines,
         pageRanges |-> [p \in 1..totalPages |->
                            [ startLine |-> StartLine(p - 1),
                              endLine |-> EndLine(p - 1, Len(lines)) ]],
         streams |-> streams,
         pdfString |-> JoinWith(pdfLines, <<"\n">>) ]

NoDoc == [lines |-> <<>>, pageRanges |-> <<>>, streams |-> <<>>, pdfString |-> <<>>]

(***************************************************************************)
(* Reports handed to savePDFReport                                         *)
(***************************************************************************)
MaxDocPages == 5

\* Numbers of input lines around the page boundaries of lines 199 and 242.
DocLineCounts ==
    {1, 2, linesPerPage - 5, linesPerPage - 4, linesPerPage, linesPerPage + 1,
     2 * linesPerPage, (MaxDocPages - 1) * linesPerPage + 1}

\* The first line of the report; the lines after it are numbered labels.
DocProbes ==
    { <<>>,
      Chars("SUMMARY"),
      Chars("Mean: 3 (approx)"),
      Chars("see 5 0 obj"),
      [k \in 1..78 |-> "a"] \o Chars(" bb cc") }

DocLabel(i) == <<"l">> \o ToStr(i)

DocText(n, probe) ==
    JoinWith(<<probe>> \o [i \in 1..(n - 1) |-> DocLabel(i)], <<"\n">>)

\* savePDFReport receives the report of the current file.
ReceiveInsights ==
    /\ docPhase = "input"
    /\ \E n \in DocLineCounts, probe \in DocProbes, f \in Filenames, t \in Timestamps :
          docInput' = [content |-> DocText(n, probe), filename |-> f, timestamp |-> t]
    /\ docPhase' = "ready"
    /\ UNCHANGED <<docResult, pdfVars, tableVars, webVars, cliVars, portVars>>

RunGeneratePDFFromText ==
    /\ docPhase = "ready"
    /\ docResult' = GeneratePDFFromText(docInput.content, docInput.filename,
                                        docInput.timestamp)
    /\ docPhase' = "done"
    /\ UNCHANGED <<docInput, pdfVars, tableVars, webVars, cliVars, portVars>>

NextDoc == ReceiveInsights \/ RunGeneratePDFFromText

(***************************************************************************)
(* The request handlers of the web server (src/webServer.ts:416-724).      *)
(* A handler runs without interruption between two of its awaits; the      *)
(* /api/process handler is suspended while its tool runs.                  *)
(***************************************************************************)
SessionIds == {"s1", "s2"}

\* Names in ./uploads.
WebFiles == {Chars("data.csv"), Chars("book.xlsx"), Chars("old.xls"),
             Chars("paper.pdf"), Chars("SCAN.PDF"), Chars("notes.txt")}

\* filename.split('.').pop()?.toLowerCase()
FileExt(name) ==
    LET parts == SplitBy(name, ".")
    IN ToLowerCase(parts[Len(parts)])

\* Lines 427-440: the fileType of an extension, "" when it is not supported.
FileTypeOf(ext) ==
    IF ext = Chars("csv") THEN "csv"
    ELSE IF ext = Chars("xlsx") \/ ext = Chars("xls") THEN "excel"
    ELSE IF ext = Chars("pdf") THEN "pdf"
    ELSE ""

\* sessions.get(sessionId) is undefined or a session that is not processed.
NotProcessed(sessionId) ==
    sessionId \notin DOMAIN sessions \/ ~sessions[sessionId].isFileProcessed

\* Line 511: only a PDF session may ask.
AskRefused(session) == session.fileType # "pdf"

\* Mutant: the test of lines 555 and 608 left out.
InsightsRefused_Never(session) == FALSE

\* Lines 555 and 608: a PDF session gets no insights.
InsightsRefused(session) == session.fileType = "pdf"

\* source: the file whose table a report was computed from.
Respond(endpoint, sessionId, status, agent, tool) ==
    [ endpoint |-> endpoint, sessionId |-> sessionId, status |-> status,
      agent |-> agent, tool |-> tool, source |-> <<>> ]

\* No /api/process request is waiting for its tool.
NoPending == [sessionId |-> "", name |-> <<>>, found |-> FALSE]

\* The names /api/delete is called with.
DeleteNames == {Chars("data.csv"), Chars("paper.pdf")}

\* Mutant: the blank session of lines 449-458 is stored before the result is
\* looked at.
SessionsAfter_SetBeforeCheck(sessionId, name, fileType, error, fullData) ==
    IF error
    THEN [id \in DOMAIN sessions \cup {sessionId} |->
             IF id \in DOMAIN sessions THEN sessions[id]
             ELSE [ currentFile |-> <<>>, fileType |-> "", isFileProcessed |-> FALSE,
                    tableData |-> "null", pdfData |-> "null" ]]
    ELSE [id \in DOMAIN sessions \cup {sessionId} |->
             IF id = sessionId
             THEN [ currentFile |-> name,
                    fileType |-> fileType,
                    isFileProcessed |-> TRUE,
                    tableData |-> IF fileType = "pdf" THEN "null" ELSE "table",
                    pdfData |-> IF fileType = "pdf" THEN fullData ELSE "null" ]
             ELSE sessions[id]]

\* Lines 442-476: the sessions Map when the handler returns; the return of
\* line 443 comes before the Map is read.
SessionsAfter(sessionId, name, fileType, error, fullData) ==
    IF error
    THEN sessions
    ELSE [id \in DOMAIN sessions \cup {sessionId} |->
             IF id = sessionId
             THEN [ currentFile |-> name,
                    fileType |-> fileType,
                    isFileProcessed |-> TRUE,
                    tableData |-> IF fileType = "pdf" THEN "null" ELSE "table",
                    pdfData |-> IF fileType = "pdf" THEN fullData ELSE "null" ]
             ELSE sessions[id]]

\* POST /api/process up to the await of lines 429-435: an extension that is
\* not supported is answered at once (line 437); otherwise the tool is
\* started and Deno.stat finds the file in ./uploads or does not.  The
\* handler is suspended there while other requests are served.
ApiProcessBegin ==
    /\ pending = NoPending
    /\ \E sessionId \in SessionIds, name \in WebFiles :
          IF FileTypeOf(FileExt(name)) = ""
          THEN /\ response' = Respond("process", sessionId, "error", FALSE, FALSE)
               /\ pending' = pending
          ELSE /\ pending' = [ sessionId |-> sessionId, name |-> name,
                                found |-> name \in uploads ]
               /\ response' = response
    /\ UNCHANGED <<sessions, lastProcessed, uploads, latestTable,
                   pdfVars, tableVars, cliVars, portVars, docVars>>

\* POST /api/process from the await on: the tool has returned.  ok: it read
\* the file without an error; fullData: what processPDF read back from
\* ./extracted_data.  process_table saves the table as the newest
\* table_data file before it returns.
ApiProcessEnd ==
    /\ pending # NoPending
    /\ \E ok \in BOOLEAN, fullData \in {"null", "text"} :
          LET sessionId == pending.sessionId
              name == pending.name
              fileType == FileTypeOf(FileExt(name))
              error == ~pending.found \/ ~ok
          IN /\ sessions' = SessionsAfter(sessionId, name, fileType, error, fullData)
             /\ lastProcessed' = IF error THEN lastProcessed
                                  ELSE [lastProcessed EXCEPT ![sessionId] = name]
             /\ latestTable' = IF error \/ fileType = "pdf" THEN latestTable ELSE name
             /\ response' = Respond("process", sessionId,
                                    IF error THEN "error" ELSE "success", FALSE, FALSE)
    /\ pending' = NoPending
    /\ UNCHANGED <<uploads, pdfVars, tableVars, cliVars, portVars, docVars>>

\* POST /api/ask; answerQuestionWithAI runs the agent when pdfData is set
\* and tableData is not (line 332).
ApiAsk ==
    /\ \E sessionId \in SessionIds :
          response' =
             IF NotProcessed(sessionId) \/ AskRefused(sessions[sessionId])
             THEN Respond("ask", sessionId, "error", FALSE, FALSE)
             ELSE Respond("ask", sessionId, "answer",
                          sessions[sessionId].pdfData # "null"
                              /\ sessions[sessionId].tableData = "null",
                          FALSE)
    /\ UNCHANGED <<sessions, lastProcessed, pending, uploads, latestTable,
                   pdfVars, tableVars, cliVars, portVars, docVars>>

\* POST /api/insights and POST /api/insights/pdf.  extract_insights takes no
\* argument: it reports on the newest table_data file
\* (storage.getLatestFile).  toolOk: it returned a report and not its error
\* object.
ApiInsights ==
    /\ \E sessionId \in SessionIds, endpoint \in {"insights", "insights/pdf"},
          toolOk \in BOOLEAN :
          response' =
             IF NotProcessed(sessionId) \/ InsightsRefused(sessions[sessionId])
             THEN Respond(endpoint, sessionId, "error", FALSE, FALSE)
             ELSE IF toolOk /\ latestTable # <<>>
                  THEN [Respond(endpoint, sessionId, "report", FALSE, TRUE)
                           EXCEPT !.source = latestTable]
                  ELSE Respond(endpoint, sessionId, "error", FALSE, TRUE)
    /\ UNCHANGED <<sessions, lastProcessed, pending, uploads, latestTable,
                   pdfVars, tableVars, cliVars, portVars, docVars>>

\* POST /api/delete: the file leaves ./uploads and the sessions whose
\* current file has the name go.
ApiDelete ==
    /\ \E name \in DeleteNames :
          /\ uploads' = uploads \ {name}
          /\ sessions' = [id \in {i \in DOMAIN sessions : sessions[i].currentFile # name}
                             |-> sessions[id]]
          /\ response' = [Respond("delete", "", "success", FALSE, FALSE)
                             EXCEPT !.source = name]
    /\ UNCHANGED <<lastProcessed, pending, latestTable,
                   pdfVars, tableVars, cliVars, portVars, docVars>>

NextWeb == ApiProcessBegin \/ ApiProcessEnd \/ ApiAsk \/ ApiInsights \/ ApiDelete

(***************************************************************************)
(* The command line loop (src/unnamed/part_002:108-136, 319-501, 600-681)  *)
(***************************************************************************)
\* const files of main: ./uploads as listAvailableFiles found it.
files == <<Chars("data.csv"), Chars("paper.pdf"), Chars("book.xlsx"), Chars("notes.txt")>>

\* Lines typed at the "> " prompt, after trim().
CliLines == {<<>>, Chars("exit"), Chars("QUIT"), Chars("new file"), Chars("Switch File"),
             Chars("1"), Chars("2"), Chars("paper.pdf"), Chars("BOOK.XLSX"),
             Chars("notes.txt"), Chars("ghost.csv"), Chars("Summarize")}

\* Answers to "Enter your choice (1-3): " and files named at "File path: ".
CliChoices == {Chars("1"), Chars("2"), Chars("3"), Chars("EXIT"), Chars("9")}
UploadNames == {Chars("report.pdf"), Chars("more.csv")}

\* parseInt of a line without a sign: the leading digits, else NaN.
ParseInt(s) == IF DigitRun(s, 1) = 0 THEN NaN ELSE Fin(ReadNat(s, 1))

\* Lines 631-638.
SelectedFile(input) ==
    LET num == ParseInt(input)
        matches == {i \in 1..Len(files) : ToLowerCase(files[i]) = ToLowerCase(input)}
    IN IF ~IsNaN(num) /\ FGreater(num, Fin(0)) /\ FLeq(num, Fin(Len(files)))
       THEN files[num.n]
       ELSE IF matches # {} THEN files[FirstIn(matches)] ELSE input

\* processFile with processCSV, processExcel and processPDF: the
\* application state afterwards and the value returned.  ok: the tool
\* returned no error; loaded: the full PDF data was read back.
ProcessFile(app, name, ok, loaded) ==
    LET type == FileTypeOf(FileExt(name))
    IN IF name \notin app.uploads \/ type = ""
       THEN [app |-> app, success |-> FALSE]
       ELSE IF ~ok
       THEN [app |-> [app EXCEPT !.fileType = type], success |-> FALSE]
       ELSE IF type = "pdf"
       THEN [ app |-> [app EXCEPT !.fileType = type,
                                  !.pdfData = IF loaded THEN "text" ELSE @,
                                  !.tableData = "null"],
              success |-> TRUE ]
       ELSE [ app |-> [app EXCEPT !.fileType = type,
                                  !.tableData = "table",
                                  !.pdfData = "null"],
              success |-> TRUE ]

\* Lines 657-659: main after promptNextFile returned.
AfterPrompt(app) ==
    [app EXCEPT !.pc = "line", !.isFileProcessed = FALSE, !.currentFile = <<>>,
                !.tableData = "null"]

Event(what, input, agent, loaded) ==
    [ what |-> what, input |-> input, agent |-> agent,
      loadedBefore |-> cliEvent.loaded, loaded |-> loaded ]

\* One pass of the while loop of main, up to the next read: of the "> "
\* prompt, or of the menu of promptNextFile.
ReadLine ==
    /\ cli.pc = "line"
    /\ \/ \* n === null
          /\ cli' = [cli EXCEPT !.pc = "ended"]
          /\ cliEvent' = Event("eof", <<>>, FALSE, cliEvent.loaded)
       \/ \E input \in CliLines, ok \in BOOLEAN, loaded \in BOOLEAN :
             IF input = <<>>
             THEN /\ cliEvent' = Event("skip", input, FALSE, cliEvent.loaded)
                  /\ UNCHANGED cli
             ELSE IF ToLowerCase(input) \in {Chars("exit"), Chars("quit")}
             THEN /\ cli' = [cli EXCEPT !.pc = "ended"]
                  /\ cliEvent' = Event("exit", input, FALSE, cliEvent.loaded)
             ELSE IF ~cli.isFileProcessed
             THEN LET selectedFile == SelectedFile(input)
                      r == ProcessFile(cli, selectedFile, ok, loaded)
                  IN /\ cli' = IF ~r.success THEN r.app
                               ELSE [r.app EXCEPT
                                        !.currentFile = selectedFile,
                                        !.isFileProcessed = TRUE,
                                        !.pc = IF r.app.fileType = "pdf"
                                               THEN "line" ELSE "choice"]
                     /\ cliEvent' = Event("select", input, FALSE,
                                          IF r.success THEN r.app.fileType
                                          ELSE cliEvent.loaded)
             ELSE IF ToLowerCase(input) \in {Chars("new file"), Chars("switch file")}
             THEN /\ cli' = [cli EXCEPT !.isFileProcessed = FALSE,
                                        !.currentFile = <<>>,
                                        !.tableData = "null",
                                        !.pdfData = "null"]
                  /\ cliEvent' = Event("newfile", input, FALSE, "none")
             ELSE \* answerQuestion, line 511
                  /\ cliEvent' = Event("question", input,
                                       cli.pdfData # "null" /\ cli.tableData = "null",
                                       cliEvent.loaded)
                  /\ UNCHANGED cli
    /\ UNCHANGED <<pdfVars, tableVars, webVars, portVars, docVars>>

\* promptNextFile from its menu on.  isFile: Deno.stat of the path succeeds
\* on a file.  The function calls itself after a table file was uploaded
\* and processed; otherwise it returns to main.
PromptNextFile ==
    /\ cli.pc = "choice"
    /\ \E choice \in CliChoices, name \in UploadNames, isFile \in BOOLEAN,
          ok \in BOOLEAN, loaded \in BOOLEAN :
          IF choice = Chars("2") /\ isFile
          THEN LET r == ProcessFile([cli EXCEPT !.uploads = @ \cup {name}],
                                    name, ok, loaded)
               IN /\ cli' = IF r.success /\ r.app.fileType \in {"csv", "excel"}
                            THEN r.app
                            ELSE AfterPrompt(r.app)
                  /\ cliEvent' = Event("upload", choice, FALSE,
                                       IF r.success THEN r.app.fileType
                                       ELSE cliEvent.loaded)
          ELSE IF choice = Chars("3") \/ ToLowerCase(choice) = Chars("exit")
          THEN /\ cli' = [cli EXCEPT !.pc = "ended"]
               /\ cliEvent' = Event("exit", choice, FALSE, cliEvent.loaded)
          ELSE /\ cli' = AfterPrompt(cli)
               /\ cliEvent' = Event("choice", choice, FALSE, cliEvent.loaded)
    /\ UNCHANGED <<pdfVars, tableVars, webVars, portVars, docVars>>

NextCli == ReadLine \/ PromptNextFile

(***************************************************************************)
(* findAvailablePort (src/webServer.ts:780-814)                            *)
(***************************************************************************)
PREFERRED_PORT == 8000

\* Mutant: the fallback ports tried in ascending order.
FALLBACK_PORTS_Ascending == <<3000, 8001, 8002, 8003, 8080, 8888>>

FALLBACK_PORTS == <<8001, 8002, 8003, 8080, 8888, 3000>>

\* The ports the server may probe.
ProbedPorts == {PREFERRED_PORT} \cup {FALLBACK_PORTS[i] : i \in 1..Len(FALLBACK_PORTS)}

\* The loop of lines 806-811 from index i on: the port returned, or 0 when
\* the loop ends without a return.
RECURSIVE FirstFallback(_, _)
FirstFallback(available, i) ==
    IF i > Len(FALLBACK_PORTS) THEN 0
    ELSE IF FALLBACK_PORTS[i] \in available THEN FALLBACK_PORTS[i]
    ELSE FirstFallback(available, i + 1)

\* Other programs hold some of the ports when the server starts.
OccupyPorts ==
    /\ portResult.phase = "start"
    /\ \E available \in SUBSET ProbedPorts : ports' = available
    /\ portResult' = [portResult EXCEPT !.phase = "probing"]
    /\ UNCHANGED <<pdfVars, tableVars, webVars, cliVars, docVars>>

\* isPortAvailable(port) is port \in ports.
FindAvailablePort ==
    /\ portResult.phase = "probing"
    /\ portResult' =
          IF PREFERRED_PORT \in ports
          THEN [phase |-> "done", port |-> PREFERRED_PORT, thrown |-> FALSE]
          ELSE LET port == FirstFallback(ports, 1)
               IN [phase |-> "done", port |-> port, thrown |-> port = 0]
    /\ UNCHANGED <<ports, pdfVars, tableVars, webVars, cliVars, docVars>>

NextPort == OccupyPorts \/ FindAvailablePort

\* Nothing is loaded and no request has been made.
Init ==
    /\ pdfPhase = "input"
    /\ insights = <<>>
    /\ filename = <<>>
    /\ timestamp = <<>>
    /\ pdfResult = NoPdf
    /\ pdfAgain = NoPdfAgain
    /\ tablePhase = "empty"
    /\ tableData = NoTable
    /\ toolResult = [error |-> FALSE, profile |-> NoProfile]
    /\ toolAgain = [error |-> FALSE, profile |-> NoProfile]
    /\ sessions = <<>>
    /\ lastProcessed = [id \in SessionIds |-> <<>>]
    /\ response = Respond("none", "", "none", FALSE, FALSE)
    /\ pending = NoPending
    /\ uploads = WebFiles
    /\ latestTable = <<>>
    /\ cli = [ pc |-> "line", isFileProcessed |-> FALSE, currentFile |-> <<>>,
               fileType |-> "", tableData |-> "null", pdfData |-> "null",
               uploads |-> {files[i] : i \in 1..Len(files)} ]
    /\ cliEvent = [ what |-> "start", input |-> <<>>, agent |-> FALSE,
                    loadedBefore |-> "none", loaded |-> "none" ]
    /\ ports = {}
    /\ portResult = [phase |-> "start", port |-> 0, thrown |-> FALSE]
    /\ docPhase = "input"
    /\ docInput = [content |-> <<>>, filename |-> <<>>, timestamp |-> <<>>]
    /\ docResult = NoDoc

\* The profiler tools alone.
SpecTable == Init /\ [][NextTable]_vars

\* The document synthesizer alone.
SpecPdf == Init /\ [][NextPdf]_vars

\* The document synthesizer called twice for one session.
SpecPdfTwice == Init /\ [][NextPdfTwice]_vars

\* The document writer of the command line alone.
SpecDoc == Init /\ [][NextDoc]_vars

\* The request handlers of the web server alone.
SpecWeb == Init /\ [][NextWeb]_vars

\* The command line loop alone.
SpecCli == Init /\ [][NextCli]_vars

\* The port search alone.
SpecPort == Init /\ [][NextPort]_vars

\* All components; they share no state.
Next == NextPdf \/ NextPdfTwice \/ NextTable \/ NextDoc \/ NextWeb \/ NextCli \/ NextPort
Spec == Init /\ [][Next]_vars

(***************************************************************************)
(* Claims about generateInsights                                           *)
(***************************************************************************)
Reported == tablePhase = "reported"
Profile == toolResult.profile

Range(seq) == {seq[i] : i \in 1..Len(seq)}

\* The cells of column c, row by row.
ColumnCells(data, c) == [r \in 1..Len(data.rows) |-> data.rows[r][c]]

Parses(cell) == ~IsNaN(ParseFloat(cell))

\* The parsed values of the non-empty cells of column c that parse.
ParsedValues(data, c) ==
    LET cells == SelectSeq(ColumnCells(data, c),
                           LAMBDA x : ~IsEmptyCell(x) /\ Parses(x))
    IN [i \in 1..Len(cells) |-> ParseFloat(cells[i])]

\* The k-th value (k >= 1) of nums in ascending order, by rank.
KthSmallest(nums, k) ==
    CHOOSE v \in Range(nums) :
        /\ Cardinality({i \in 1..Len(nums) : FLess(nums[i], v)}) < k
        /\ Cardinality({i \in 1..Len(nums) : FLeq(nums[i], v)}) >= k

NumericColumns == {c \in 1..Len(Profile.columns) : Profile.columns[c].kind = "numeric"}

\* C4: the duplicate-row count is the number of rows minus the number of
\* distinct rows, two rows being the same iff every cell matches position
\* by position, whatever characters the cells hold.
C4_DuplicatesAreEqualRows ==
    Reported =>
        Profile.duplicates = tableData.rowCount - Cardinality(Range(tableData.rows))

\* C5: for every dataset with at least one column, zero rows included,
\* completeness is a number in [0, 100], and it is 100 iff the dataset has
\* no empty cell.
C5_CompletenessRange ==
    Reported /\ Len(tableData.headers) >= 1 =>
        /\ FLeq(Fin(0), Profile.completeness)
        /\ FLeq(Profile.completeness, Fin(100))
        /\ (Profile.completeness = Fin(100) <=> EmptyCount(tableData.rows) = 0)

\* C6: profiling fails, with an error and no report, exactly when the
\* dataset has zero columns; with at least one column and zero rows it
\* yields a report that describes every column as empty.
C6_FailsExactlyOnZeroColumns ==
    Reported =>
        /\ (toolResult.error <=> Len(tableData.headers) = 0)
        /\ (toolResult.error => Profile = NoProfile)
        /\ (Len(tableData.headers) >= 1 /\ tableData.rowCount = 0 =>
               /\ ~toolResult.error
               /\ Len(Profile.columns) = Len(tableData.headers)
               /\ \A c \in 1..Len(Profile.columns) : Profile.columns[c].kind = "empty")

\* C7: in a numeric column every non-empty cell that does not parse is left
\* out of the statistics and is counted in the column's missing-value
\* count; no error is raised.
C7_UnparseableCountedMissing ==
    Reported =>
        /\ ~toolResult.error
        /\ \A c \in NumericColumns :
              /\ Profile.columns[c].stats.n = Len(ParsedValues(tableData, c))
              /\ Profile.columns[c].missingCount =
                    tableData.rowCount - Len(ParsedValues(tableData, c))

\* C8: for every numeric column with n >= 1 parsed values,
\* Q1 <= median <= Q3 and IQR = Q3 - Q1 >= 0.
C8_QuartilesOrdered ==
    Reported =>
        \A c \in NumericColumns :
           LET st == Profile.columns[c].stats
           IN st.n >= 1 =>
                 /\ FLeq(st.q1, st.median)
                 /\ FLeq(st.median, st.q3)
                 /\ st.iqr = FSub(st.q3, st.q1)
                 /\ FGeq(st.iqr, Fin(0))

\* C9: the outliers of a numeric column are exactly the parsed values v with
\* v < Q1 - 1.5*IQR or v > Q3 + 1.5*IQR, Q1 and Q3 being the ascending
\* values at index floor(n*0.25) and floor(n*0.75) without interpolation;
\* the values 1,2,3,4,100 give Q1 = 2, Q3 = 4, IQR = 2, upper bound 7 and
\* the single outlier 100.
QuartileExample == TableOf(<<"v">>, <<<<"1">>, <<"2">>, <<"3">>, <<"4">>, <<"100">>>>)

C9_OutliersByIqrFences ==
    Reported =>
        /\ \A c \in NumericColumns :
              LET st == Profile.columns[c].stats
                  nums == ParsedValues(tableData, c)
                  n == Len(nums)
                  Q1 == KthSmallest(nums, (n \div 4) + 1)
                  Q3 == KthSmallest(nums, ((3 * n) \div 4) + 1)
                  IQR == FSub(Q3, Q1)
                  lo == FSub(Q1, FMul(Rat(3, 2), IQR))
                  hi == FAdd(Q3, FMul(Rat(3, 2), IQR))
              IN /\ st.q1 = Q1
                 /\ st.q3 = Q3
                 /\ st.outliers =
                       SelectSeq(nums, LAMBDA v : FLess(v, lo) \/ FLess(hi, v))
        /\ (tableData = QuartileExample =>
               LET st == Profile.columns[1].stats
               IN /\ st.q1 = Fin(2)
                  /\ st.q3 = Fin(4)
                  /\ st.iqr = Fin(2)
                  /\ st.upperBound = Fin(7)
                  /\ st.outliers = <<Fin(100)>>)

C9_Witness ==
    /\ Reported
    /\ tableData = QuartileExample
    /\ Profile.columns[1].kind = "numeric"
    /\ Profile.columns[1].stats.outliers = <<Fin(100)>>

(***************************************************************************)
(* Claims about two requests for the same report's PDF                     *)
(***************************************************************************)
PdfTwice == pdfPhase = "again"

\* Where the text after "(Generated: " begins in a document.
StampStart(s) ==
    FirstIn(LinesBeginning(s, Chars("(Generated: "))) + Len(Chars("(Generated: "))
\* Where the number of the first "<< /Length n >>" begins.
FirstLengthStart(s) ==
    FirstIn(LinesBeginning(s, Chars("<< /Length "))) + Len(Chars("<< /Length "))
StartxrefStart(s) ==
    LastIn(LinesBeginning(s, Chars("startxref\n"))) + Len(Chars("startxref\n"))
DigitsAt(s, i) == Len(ToStr(ReadNat(s, i)))

CallLeavesDataset ==
    tablePhase \in {"stored", "reported"} =>
        /\ tableData'.headers = tableData.headers
        /\ tableData'.rows = tableData.rows
        /\ tableData'.rowCount = tableData.rowCount
        /\ (tablePhase' = "repeated" => toolAgain' = toolResult)

DocDone == docPhase = "done"

\* The pages whose content stream shows the operand x.
PagesShowing(x) ==
    {p \in 1..Len(docResult.streams) : x \in TjOperands(docResult.streams[p])}

\* C13: every input line is rendered in the content stream of exactly one
\* page: the pages' ranges of line indices begin at 0, each begins where
\* the one before it ends, and the last ends at the number of lines.
C13_EveryLineOnOnePage ==
    DocDone =>
        LET lines == docResult.lines
            ranges == docResult.pageRanges
        IN /\ ranges[1].startLine = 0
           /\ \A p \in 2..Len(ranges) : ranges[p].startLine = ranges[p - 1].endLine
           /\ ranges[Len(ranges)].endLine = Len(lines)
           /\ \A i \in 1..(Len(lines) - 1) :
                 Cardinality(PagesShowing(DocLabel(i))) = 1

\* C18: every cross-reference entry k >= 1 states the offset at which the
\* definition "k 0 obj" of object k begins, and the number after startxref
\* is the offset at which the xref keyword begins.
C18_DocXrefAndStartxref ==
    DocDone =>
        LET s == docResult.pdfString
        IN /\ \A k \in 1..(XrefSize(s) - 1) :
                 \E i \in ObjDefinitions(s, k) :
                    XrefEntryOffset(s, k) = Utf8OffsetOf(s, i)
           /\ StartxrefValue(s) = Utf8OffsetOf(s, XrefKeyword(s))

(***************************************************************************)
(* Claims about the web server's handlers                                  *)
(***************************************************************************)
PdfNames == {Chars("paper.pdf"), Chars("SCAN.PDF")}
TableNames == {Chars("data.csv"), Chars("book.xlsx"), Chars("old.xls")}

\* The file the session of the last response processed last with success,
\* <<>> when it processed none.
LastOfResponse == lastProcessed[response.sessionId]

\* C14: /api/ask answers only for a session whose last successfully
\* processed file is a PDF, /api/insights and /api/insights/pdf report only
\* for one whose last successfully processed file is a CSV or Excel file;
\* with no processed file or a file of the other kind the endpoint answers
\* with an error and neither the agent nor the insights tool is invoked.
C14_EndpointsGatedByFileKind ==
    /\ response.endpoint = "ask" =>
          /\ (response.status = "answer" => LastOfResponse \in PdfNames)
          /\ (LastOfResponse \notin PdfNames =>
                  response.status = "error" /\ ~response.agent /\ ~response.tool)
          /\ (response.agent => LastOfResponse \in PdfNames)
    /\ response.endpoint \in {"insights", "insights/pdf"} =>
          /\ (response.status = "report" => LastOfResponse \in TableNames)
          /\ (LastOfResponse \notin TableNames =>
                  response.status = "error" /\ ~response.agent /\ ~response.tool)
          /\ (response.tool => LastOfResponse \in TableNames)

\* A session whose last processed file is a PDF is refused its report
\* while another session holds an Excel file.
C14_Witness ==
    /\ response.endpoint = "insights/pdf"
    /\ response.status = "error"
    /\ ~response.tool
    /\ LastOfResponse \in PdfNames
    /\ response.sessionId \in DOMAIN sessions
    /\ \E other \in DOMAIN sessions : sessions[other].fileType = "excel"

(***************************************************************************)
(* Claims about the command line loop                                      *)
(***************************************************************************)
\* cliEvent.loaded is the kind of the file processed last with success,
\* "none" at the start and after 'new file'.
AtPrompt == cli.pc = "line"

\* C15: when the loop reads its next line, it is in file-selection mode
\* after a CSV or Excel file was processed and in question mode after a PDF
\* was processed, until 'new file' or 'switch file', which clears the
\* loaded file, table and PDF data; 'exit' and 'quit' end the loop from
\* either mode; a line goes to the agent only while a PDF is loaded and no
\* table data is.
C15_CliModes ==
    /\ (AtPrompt /\ cliEvent.loaded \in {"csv", "excel"}) => ~cli.isFileProcessed
    /\ (AtPrompt /\ cliEvent.loaded = "pdf") => cli.isFileProcessed
    /\ cliEvent.what = "question" => cliEvent.loadedBefore = "pdf"
    /\ cliEvent.what = "select" => cliEvent.loadedBefore # "pdf"
    /\ cliEvent.what = "newfile" =>
          /\ ~cli.isFileProcessed
          /\ cli.currentFile = <<>>
          /\ cli.tableData = "null"
          /\ cli.pdfData = "null"
    /\ cliEvent.what = "exit" => cli.pc = "ended"
    /\ cliEvent.what \in {"select", "question", "newfile"} =>
          ToLowerCase(cliEvent.input) \notin {Chars("exit"), Chars("quit")}
    /\ cliEvent.agent => (cli.pdfData # "null" /\ cli.tableData = "null")

(***************************************************************************)
(* Claims about findAvailablePort                                          *)
(***************************************************************************)
\* The order the claim names.
ClaimedPortOrder == <<8000, 8001, 8002, 8003, 8080, 8888, 3000>>

\* C16: findAvailablePort returns 8000 whenever 8000 is available, else
\* the first available port in the order 8001, 8002, 8003, 8080, 8888,
\* 3000, and throws exactly when none of the seven is available.
C16_FirstAvailablePort ==
    portResult.phase = "done" =>
        LET free == {i \in 1..Len(ClaimedPortOrder) : ClaimedPortOrder[i] \in ports}
        IN /\ (8000 \in ports => portResult.port = 8000)
           /\ portResult.thrown <=> free = {}
           /\ free # {} => portResult.port = ClaimedPortOrder[FirstIn(free)]

\* 8000 to 8003 are taken; 8080 is returned although 3000 is free too.
C16_Witness ==
    /\ portResult.phase = "done"
    /\ ports = {8080, 3000}
    /\ portResult.port = 8080
    /\ ~portResult.thrown

(***************************************************************************)
(* Claims about the kind of a column                                       *)
(***************************************************************************)
\* The non-empty cells of column c, and how many of them parse.
NonEmptyCells(data, c) == SelectSeq(ColumnCells(data, c), LAMBDA x : ~IsEmptyCell(x))
ParsedCount(data, c) == Len(SelectSeq(NonEmptyCells(data, c), Parses))

\* C17: a column with a non-empty cell is numeric exactly when strictly
\* more than half of its non-empty cells parse as a number and categorical
\* otherwise; a column with no non-empty cell is reported as empty and gets
\* neither a numeric nor a categorical analysis.
C17_ColumnKind ==
    Reported =>
        \A c \in 1..Len(Profile.columns) :
           LET col == Profile.columns[c]
               nonEmpty == Len(NonEmptyCells(tableData, c))
               parsed == ParsedCount(tableData, c)
           IN /\ nonEmpty = 0 =>
                    /\ col.kind = "empty"
                    /\ col.stats = NoStats
                    /\ col.cardinality = 0
              /\ nonEmpty > 0 =>
                    /\ col.kind = "numeric" <=> 2 * parsed > nonEmpty
                    /\ col.kind = "categorical" <=> 2 * parsed <= nonEmpty
                    /\ col.kind = "numeric" => col.stats.n = parsed
                    /\ col.kind = "categorical" => col.stats = NoStats

\* One column has exactly half of its non-empty cells parse and is
\* categorical; another has no non-empty cell.
C17_Witness ==
    /\ Reported
    /\ \E c \in 1..Len(Profile.columns) :
          /\ Len(NonEmptyCells(tableData, c)) > 0
          /\ 2 * ParsedCount(tableData, c) = Len(NonEmptyCells(tableData, c))
          /\ Profile.columns[c].kind = "categorical"
    /\ \E c \in 1..Len(Profile.columns) :
          /\ Len(NonEmptyCells(tableData, c)) = 0
          /\ Profile.columns[c].kind = "empty"

(***************************************************************************)
(* Claims about the wrapping of body lines                                 *)
(***************************************************************************)
\* The units of s after which one of the wrapped lines ws ends and the next
\* begins.
BreaksOf(ws) ==
    {Len(FlattenSeq(SubSeq(ws, 1, k))) : k \in 1..(Len(ws) - 1)}

\* The length of the word of s that has units b and b + 1, neither a space.
WordLengthAround(s, b) ==
    LET first == LastIn({i \in 1..b : i = 1 \/ s[i - 1] = " "})
        last == FirstIn({j \in (b + 1)..Len(s) : j = Len(s) \/ s[j + 1] = " "})
    IN last - first + 1

\* C19: a body line is wrapped to lines of at most maxCharsPerLine units
\* which, put together in order, give back the line; a break falls inside
\* a word only when that word is longer than maxCharsPerLine.
C19_WrapKeepsWords ==
    (PdfDone /\ NewlinePositions(insights) = {}) =>
        LET line == EscapePdf(insights)
            ws == pdfResult.wrappedLines
        IN /\ \A k \in 1..Len(ws) : Len(ws[k]) <= maxCharsPerLine
           /\ FlattenSeq(ws) = line
           /\ \A b \in BreaksOf(ws) :
                 (line[b] # " " /\ line[b + 1] # " ") =>
                     WordLengthAround(line, b) > maxCharsPerLine

(***************************************************************************)
(* Claims about the numbering of the objects                               *)
(***************************************************************************)
\* Where a line "n 0 obj" begins, for any number n.
AnyObjDefinitions(s) ==
    {i \in 1..Len(s) :
        /\ LineStart(s, i)
        /\ IsDigit(s[i])
        /\ MatchAt(s, i + DigitsAt(s, i), Chars(" 0 obj\n"))}

\* The entry that begins at unit e of the table is a free entry.
EntryIsFree(s, e) == s[e + 17] = "f"

ClaimedKids(P) ==
    FlattenSeq([i \in 1..P |->
        (IF i = 1 THEN <<>> ELSE <<" ">>) \o ToStr(2 + i) \o Chars(" 0 R")])

\* The dictionary text the claim gives object k of a document of P pages.
ClaimedBody(k, P) ==
    IF k = 1 THEN Chars("<< /Type /Catalog /Pages 2 0 R >>\n")
    ELSE IF k = 2
    THEN Chars("<< /Type /Pages /Kids [") \o ClaimedKids(P)
         \o Chars("] /Count ") \o ToStr(P) \o Chars(" >>\n")
    ELSE IF k <= P + 2
    THEN Chars("<< /Type /Page /Parent 2 0 R /Resources ")
         \o ToStr(P + 3) \o Chars(" 0 R /MediaBox [0 0 612 792] /Contents ")
         \o ToStr(P + 1 + k) \o Chars(" 0 R >>\n")
    ELSE IF k = P + 3 THEN Chars("<< /Font << /F1 ")
    ELSE Chars("<< /Length ")

\* C20: for P pages the objects are catalog 1, page tree 2, pages 3..P+2,
\* font P+3 and content streams P+4..2P+3, each defined once and in
\* ascending order; the cross-reference table has 2P+4 entries of which
\* only entry 0 is free; /Pages, /Kids, /Parent, /Resources and /Contents
\* name defined objects and page i names content stream i.
C20_ObjectNumbering ==
    PdfDone =>
        \A s \in {pdfResult.fullPDF} :
        \A P \in {PageObjectCount(s)}, all \in {AnyObjDefinitions(s)},
           size \in {XrefSize(s)}, xref \in {XrefKeyword(s)},
           trailer \in {TrailerKeyword(s)} :
           LET defs == [k \in 1..(2 * P + 3) |-> {i \in all : ReadNat(s, i) = k}]
               firstEntry == xref + Len(Chars("xref\n0 ")) + Len(ToStr(size)) + 1
           IN /\ P >= 1
              /\ \A k \in 1..(2 * P + 3) : Cardinality(defs[k]) = 1
              /\ Cardinality(all) = 2 * P + 3
              /\ \A k \in 1..(2 * P + 2) : \A i \in defs[k], j \in defs[k + 1] : i < j
              /\ size = 2 * P + 4
              /\ (trailer - firstEntry) \div XrefEntryLen = 2 * P + 4
              /\ EntryIsFree(s, firstEntry)
              /\ \A k \in 1..(2 * P + 3) : ~EntryIsFree(s, firstEntry + XrefEntryLen * k)
              /\ \A k \in 1..(2 * P + 3) :
                    \A i \in defs[k] :
                       MatchAt(s, i + Len(ToStr(k)) + Len(Chars(" 0 obj\n")),
                               ClaimedBody(k, P))

\* A document of four pages: twelve cross-reference entries, the last
\* content stream being object 11.
C20_Witness ==
    /\ PdfDone
    /\ PageObjectCount(pdfResult.fullPDF) = 4
    /\ XrefSize(pdfResult.fullPDF) = 12
    /\ Cardinality(ObjDefinitions(pdfResult.fullPDF, 11)) = 1


(***************************************************************************)
(* Claims about the distribution of a numeric column                       *)
(***************************************************************************)
\* The median by rank: the middle value, or the mean of the two middle ones.
MedianByRank(nums) ==
    LET n == Len(nums)
    IN IF n % 2 = 1 THEN KthSmallest(nums, (n + 1) \div 2)
       ELSE FDiv(FAdd(KthSmallest(nums, n \div 2), KthSmallest(nums, (n \div 2) + 1)),
                 Fin(2))

\* The population variance as the mean of the squares minus the square of
\* the mean.
VarianceByMoments(nums) ==
    LET n == Len(nums)
        mean == FDiv(SumNums(nums), Fin(n))
        squares == [i \in 1..n |-> FMul(nums[i], nums[i])]
    IN FSub(FDiv(SumNums(squares), Fin(n)), FMul(mean, mean))

\* |mean - median| < 0.1 * stddev, as 100 * (mean - median)^2 < variance.
WithinTenthOfStdDev(nums) ==
    LET diff == FSub(FDiv(SumNums(nums), Fin(Len(nums))), MedianByRank(nums))
    IN FLess(FMul(Fin(100), FMul(diff, diff)), VarianceByMoments(nums))

\* The entries of the skewed-variable list that name the column c.
SkewedEntries(c) ==
    {i \in 1..Len(Profile.skewedColumns) :
        Profile.skewedColumns[i].header = tableData.headers[c]}

\* C21: a numeric column is classified symmetric exactly when
\* |mean - median| < 0.1 * stddev, otherwise right-skewed when mean > median
\* and left-skewed in every remaining case; it is in the skewed-variable
\* list exactly when it is not classified symmetric.
C21_SkewClassification ==
    Reported =>
        /\ \A c \in NumericColumns :
              LET st == Profile.columns[c].stats
                  nums == ParsedValues(tableData, c)
                  mean == FDiv(SumNums(nums), Fin(Len(nums)))
                  claimed == IF WithinTenthOfStdDev(nums) THEN "symmetric"
                             ELSE IF FGreater(mean, MedianByRank(nums))
                                  THEN "right-skewed"
                                  ELSE "left-skewed"
              IN /\ st.skew = claimed
                 /\ (SkewedEntries(c) # {} <=> st.skew # "symmetric")
                 /\ \A i \in SkewedEntries(c) : Profile.skewedColumns[i].skew = st.skew
        /\ \A c \in 1..Len(Profile.columns) :
              SkewedEntries(c) # {} => c \in NumericColumns

C21_Witness ==
    /\ Reported
    /\ tableData.headers = <<"age">>
    /\ ParsedValues(tableData, 1) = <<Fin(1), Fin(-3), Fin(9)>>
    /\ Profile.columns[1].stats.skew = "right-skewed"
    /\ Profile.skewedColumns = <<[header |-> "age", skew |-> "right-skewed"]>>

\* C28: a numeric column whose parsed values are all equal is classified
\* symmetric and is not among the skewed variables.
C28_ConstantColumnSymmetric ==
    Reported =>
        \A c \in NumericColumns :
           LET nums == ParsedValues(tableData, c)
           IN (\A i \in 1..Len(nums) : nums[i] = nums[1]) =>
                 /\ Profile.columns[c].stats.skew = "symmetric"
                 /\ SkewedEntries(c) = {}

(***************************************************************************)
(* Claims about the analysis of a categorical column                       *)
(***************************************************************************)
CategoricalColumns ==
    {c \in 1..Len(Profile.columns) : Profile.columns[c].kind = "categorical"}

\* How often the value v occurs among the cells, and where it occurs first.
Occurrences(cells, v) == Cardinality({i \in 1..Len(cells) : cells[i] = v})
FirstOccurrence(cells, v) ==
    CHOOSE i \in 1..Len(cells) :
        cells[i] = v /\ \A j \in 1..(i - 1) : cells[j] # v

\* C22: the most frequent values of a categorical column are at most 5
\* values of the column with their counts, in descending order of count,
\* equal counts in the order of first occurrence, and no value outside the
\* list occurs more often than a value in it.
C22_TopFiveByCount ==
    Reported =>
        \A c \in CategoricalColumns :
           LET top == Profile.columns[c].topValues
               cells == NonEmptyCells(tableData, c)
               listed == {top[i].val : i \in 1..Len(top)}
           IN /\ Len(top) <= 5
              /\ Len(top) >= 1
              /\ \A i \in 1..Len(top) :
                    /\ top[i].val \in Range(cells)
                    /\ top[i].count = Occurrences(cells, top[i].val)
              /\ \A i, j \in 1..Len(top) :
                    i < j =>
                       \/ top[i].count > top[j].count
                       \/ /\ top[i].count = top[j].count
                          /\ FirstOccurrence(cells, top[i].val)
                                < FirstOccurrence(cells, top[j].val)
              /\ \A v \in Range(cells) \ listed :
                    \A w \in listed : Occurrences(cells, v) <= Occurrences(cells, w)

C22_Witness ==
    /\ Reported
    /\ tableData.headers = <<"tag">>
    /\ Cardinality(Range(NonEmptyCells(tableData, 1))) = 7
    /\ Profile.columns[1].topValues =
          << [val |-> "a", count |-> 2], [val |-> "c", count |-> 2],
             [val |-> "g", count |-> 2], [val |-> "b", count |-> 1],
             [val |-> "d", count |-> 1] >>

\* C23: a categorical column is flagged as a likely identifier exactly when
\* its cardinality, the number of distinct non-empty values, equals the row
\* count of the dataset.
C23_IdentifierWhenCardinalityIsRowCount ==
    Reported =>
        \A c \in CategoricalColumns :
           Profile.columns[c].identifier
              <=> Cardinality(Range(NonEmptyCells(tableData, c))) = tableData.rowCount

(***************************************************************************)
(* Claims about the column lists behind the recommendations                *)
(***************************************************************************)
\* C24: the report holds the gradient boosting recommendation only when
\* the dataset has at least one column analysed as numeric and at least one
\* column analysed as categorical.
C24_GradientBoostingNeedsBothKinds ==
    Reported =>
        (Profile.gradientBoosting => NumericColumns # {} /\ CategoricalColumns # {})

C24_Witness ==
    /\ Reported
    /\ Profile.gradientBoosting
    /\ tableData.headers = <<"age", "city">>
    /\ Profile.columns[1].kind = "numeric"
    /\ Profile.columns[2].kind = "categorical"

\* C27: every column is counted in exactly one of the groups numeric,
\* categorical or empty: the numeric and the categorical count add up to the
\* number of columns with a non-empty value, and every column analysed as
\* categorical is counted as categorical.
C27_EveryColumnCounted ==
    Reported /\ ~toolResult.error =>
        /\ Len(Profile.numericColumns) + Len(Profile.categoricalColumns) =
              Cardinality({c \in 1..Len(tableData.headers) :
                              Len(NonEmptyCells(tableData, c)) > 0})
        /\ \A c \in CategoricalColumns :
              tableData.headers[c] \in Range(Profile.categoricalColumns)

(***************************************************************************)
(* Claims about the text positions on a page                               *)
(***************************************************************************)
\* A line of a content stream that holds the operator Td or Tj.
IsTdLine(l) ==
    Len(l) >= 3 /\ l[1] # "(" /\ SubSeq(l, Len(l) - 2, Len(l)) = Chars(" Td")
IsTjLine(l) ==
    Len(l) >= 5 /\ l[1] = "(" /\ SubSeq(l, Len(l) - 3, Len(l)) = Chars(") Tj")

\* The second operand of 'tx ty Td', a decimal integer with an optional sign.
TdVertical(l) ==
    LET ty == SplitBy(l, " ")[2]
    IN IF ty[1] = "-" THEN -ReadNat(ty, 2) ELSE ReadNat(ty, 1)

\* The sum of step * count(step) over a set of steps.
RECURSIVE WeightedSum(_, _)
WeightedSum(steps, count) ==
    IF steps = {} THEN 0
    ELSE LET v == CHOOSE x \in steps : TRUE
         IN v * count[v] + WeightedSum(steps \ {v}, count)

\* The vertical positions at which the Tj operators of one content stream
\* show their text: every Td moves the start of the line by its operands,
\* from the origin at BT.
TextPositions(pageContent) ==
    LET ls == SplitLines(pageContent)
        moves == {m \in 1..Len(ls) : IsTdLine(ls[m])}
        ty == [m \in moves |-> TdVertical(ls[m])]
        steps == {ty[m] : m \in moves}
        yAt(k) == WeightedSum(steps,
                      [v \in steps |-> Cardinality({m \in moves : m < k /\ ty[m] = v})])
    IN {yAt(k) : k \in {m \in 1..Len(ls) : IsTjLine(ls[m])}}

\* C29: on every page, for any number of wrapped lines, each text line is
\* shown at a vertical position between the bottom margin (y = 50) and the
\* top margin (y = 742), on the first page as on the following ones.
C29_TextWithinMargins ==
    PdfDone =>
        \A p \in 1..Len(pdfResult.pages) :
           \A y \in TextPositions(pdfResult.pages[p]) :
              marginBottom <= y /\ y <= pageHeight - marginTop

(***************************************************************************)
(* Claims about web sessions whose requests interleave                     *)
(***************************************************************************)
InsightsEndpoints == {"insights", "insights/pdf"}

\* C25: with several sessions interleaving their requests, the insights and
\* the insights PDF returned to a session are computed from the table file
\* this session processed last with success, whatever other sessions
\* processed in between.
C25_InsightsOfOwnFile ==
    response.endpoint \in InsightsEndpoints /\ response.status = "report" =>
        response.source = lastProcessed[response.sessionId]

\* A name is missing from ./uploads only after /api/delete answered with
\* success for it.
DeletedNames == WebFiles \ uploads

\* C26: once /api/delete for a file name has answered with success, no
\* session has that name as its currentFile, also when an /api/process
\* request for the name was waiting for its result while the delete ran and
\* completes afterwards.
C26_DeletedFileInNoSession ==
    \A name \in DeletedNames :
       \A id \in DOMAIN sessions : sessions[id].currentFile # name

\* A step that ends an /api/process request with an error, or one that
\* follows such an answer without a new response.
ProcessFailedStep == response'.endpoint = "process" /\ response'.status = "error"

KeepsSessions == ProcessFailedStep => sessions' = sessions

\* C30: when /api/process fails (extension not supported, error result of
\* the tool, exception) the sessions map is left as it was: the session
\* keeps its fields and a session that did not exist is not created.
C30_FailedProcessKeepsSessions == [][KeepsSessions]_vars

\* The request of a session that is not in the Map has failed while another
\* session holds its processed file.
C30_Witness ==
    /\ response.endpoint = "process"
    /\ response.status = "error"
    /\ response.sessionId = "s2"
    /\ "s2" \notin DOMAIN sessions
    /\ "s1" \in DOMAIN sessions
    /\ sessions["s1"].currentFile = Chars("data.csv")
    /\ sessions["s1"].isFileProcessed
====
